---- MODULE Spec2Model ----
(***************************************************************************)
(* Command bus, component registry and panel compositor of cng4.           *)
(*                                                                         *)
(* A command text is a sequence of atoms.  An atom is one of the special   *)
(* characters (blank, newline, single quote, double quote, backslash, hash, *)
(* backtick) or a chunk: a string that contains none of them.  Tokens are  *)
(* sequences of atoms as well; Str concatenates a token into the string    *)
(* the source compares against names.                                      *)
(***************************************************************************)
EXTENDS Integers, Sequences, FiniteSets, TLC

\* ------------------------------------------------------------------ bounds
\* number of commands the free producers may send in one run
MaxFree == 1
\* channel capacity of the runs that study dispatch without back-pressure
CapLarge == 12
\* channel capacity of the runs that study back-pressure
CapSmall == 2
\* channel capacity of the runs that study the line-editing mutexes: the
\* constructor of the gui component sends five envelopes from one handler
CapMedium == 6
MaxEvents == 1
\* number of envelopes up to which a run is followed
MaxEnvelopes == 64

\* --------------------------------------------------------------- constants
P == "p"
Q == "q"
QUIT == "quit"
EXIT == "exit"
COMMENT == "#"
MSG_NEW == "new"
MSG_INIT == "init"
MODULE_plugins == "plugins"
MODULE_messages == "messages"
MODULE_log == "log"
MODULE_cfg == "cfg"
MODULE_editor == "editor"
MODULE_ping == "ping"
MODULE_script == "script"
MODULE_command == "command"
MODULE_mqtt == "mqtt"
MODULE_gui == "gui"
MODULE_panels == "panels"

None == "none"

\* Option<usize>: None is the empty sequence and Some(i) holds i
NoPopup == <<>>
Some(i) == <<i>>

\* ------------------------------------------------------------------- text
SQ == "'"
DQ == "\""
BS == "<backslash>"
NL == "\n"
SPC == " "
BT == "<backtick>"

IsWhitespace(a) == a \in {SPC, NL}

RECURSIVE Str(_)
Str(tok) == IF tok = <<>> THEN "" ELSE Head(tok) \o Str(Tail(tok))

RECURSIVE Concat(_)
Concat(seqs) == IF seqs = <<>> THEN <<>> ELSE Head(seqs) \o Concat(Tail(seqs))

\* [String]::join with one blank
RECURSIVE Join(_)
Join(parts) ==
    IF parts = <<>> THEN <<>>
    ELSE IF Len(parts) = 1 THEN parts[1]
    ELSE parts[1] \o <<SPC>> \o Join(Tail(parts))

\* str::replace of the single quote by an underscore
Replace(text) == [i \in 1..Len(text) |-> IF text[i] = SQ THEN "_" ELSE text[i]]

\* cmd.split_once(COMMENT).map(|(before, _)| before.trim_end()).unwrap_or(cmd)
RECURSIVE TrimEnd(_)
TrimEnd(text) ==
    IF text # <<>> /\ IsWhitespace(text[Len(text)])
    THEN TrimEnd(SubSeq(text, 1, Len(text) - 1))
    ELSE text

StripComment(text) ==
    IF \E i \in 1..Len(text) : text[i] = COMMENT
    THEN LET i == CHOOSE k \in 1..Len(text) :
                      text[k] = COMMENT /\ \A j \in 1..(k - 1) : text[j] # COMMENT
         IN  TrimEnd(SubSeq(text, 1, i - 1))
    ELSE text

\* the number of leading atoms of text that are not in stops
Span(text, stops) ==
    LET hits == {i \in 1..Len(text) : text[i] \in stops}
    IN  IF hits = {} THEN Len(text)
        ELSE (CHOOSE i \in hits : \A j \in hits : i <= j) - 1

Whitespace == {SPC, NL}

\* the leading atoms of text that are whitespace
Blanks(text) ==
    LET hits == {i \in 1..Len(text) : ~IsWhitespace(text[i])}
    IN  IF hits = {} THEN Len(text)
        ELSE (CHOOSE i \in hits : \A j \in hits : i <= j) - 1

\* str::split_whitespace, one word at a time
RECURSIVE SplitWs(_, _)
SplitWs(text, words) ==
    LET b == Blanks(text)
        w == Span(text, Whitespace)
    IN  IF text = <<>> THEN words
        ELSE IF b > 0 THEN SplitWs(SubSeq(text, b + 1, Len(text)), words)
        ELSE SplitWs(SubSeq(text, w + 1, Len(text)), Append(words, SubSeq(text, 1, w)))

split_whitespace(text) == SplitWs(text, <<>>)

\* shell_words::split, the state machine of the crate
RECURSIVE ShellWords(_, _, _, _)
ShellWords(text, state, word, words) ==
    LET eof == text = <<>>
        c == Head(text)
        rest == Tail(text)
        \* the atoms that the state takes one after the other and stays
        run == CASE state = "SingleQuoted" -> Span(text, {SQ})
                 [] state = "DoubleQuoted" -> Span(text, {DQ, BS})
                 [] state = "Unquoted" -> Span(text, {SQ, DQ, BS, SPC, NL})
                 [] state = "Comment" -> Span(text, {NL})
                 [] state = "Delimiter" -> Blanks(text)
                 [] OTHER -> 0
        taken == IF state \in {"Comment", "Delimiter"} THEN word
                 ELSE word \o SubSeq(text, 1, run)
    IN
    IF run > 0 THEN ShellWords(SubSeq(text, run + 1, Len(text)), state, taken, words)
    ELSE
    CASE state = "Delimiter" ->
            IF eof THEN [ok |-> TRUE, parts |-> words]
            ELSE IF c = SQ THEN ShellWords(rest, "SingleQuoted", word, words)
            ELSE IF c = DQ THEN ShellWords(rest, "DoubleQuoted", word, words)
            ELSE IF c = BS THEN ShellWords(rest, "Backslash", word, words)
            ELSE IF IsWhitespace(c) THEN ShellWords(rest, "Delimiter", word, words)
            ELSE IF c = "#" THEN ShellWords(rest, "Comment", word, words)
            ELSE ShellWords(rest, "Unquoted", Append(word, c), words)
      [] state = "Backslash" ->
            IF eof THEN [ok |-> TRUE, parts |-> Append(words, Append(word, BS))]
            ELSE IF c = NL THEN ShellWords(rest, "Delimiter", word, words)
            ELSE ShellWords(rest, "Unquoted", Append(word, c), words)
      [] state = "Unquoted" ->
            IF eof THEN [ok |-> TRUE, parts |-> Append(words, word)]
            ELSE IF c = SQ THEN ShellWords(rest, "SingleQuoted", word, words)
            ELSE IF c = DQ THEN ShellWords(rest, "DoubleQuoted", word, words)
            ELSE IF c = BS THEN ShellWords(rest, "UnquotedBackslash", word, words)
            ELSE IF IsWhitespace(c) THEN ShellWords(rest, "Delimiter", <<>>, Append(words, word))
            ELSE ShellWords(rest, "Unquoted", Append(word, c), words)
      [] state = "UnquotedBackslash" ->
            IF eof THEN [ok |-> TRUE, parts |-> Append(words, Append(word, BS))]
            ELSE IF c = NL THEN ShellWords(rest, "Unquoted", word, words)
            ELSE ShellWords(rest, "Unquoted", Append(word, c), words)
      [] state = "SingleQuoted" ->
            IF eof THEN [ok |-> FALSE, parts |-> <<>>]
            ELSE IF c = SQ THEN ShellWords(rest, "Unquoted", word, words)
            ELSE ShellWords(rest, "SingleQuoted", Append(word, c), words)
      [] state = "DoubleQuoted" ->
            IF eof THEN [ok |-> FALSE, parts |-> <<>>]
            ELSE IF c = DQ THEN ShellWords(rest, "Unquoted", word, words)
            ELSE IF c = BS THEN ShellWords(rest, "DoubleQuotedBackslash", word, words)
            ELSE ShellWords(rest, "DoubleQuoted", Append(word, c), words)
      [] state = "DoubleQuotedBackslash" ->
            IF eof THEN [ok |-> FALSE, parts |-> <<>>]
            ELSE IF c = NL THEN ShellWords(rest, "DoubleQuoted", word, words)
            ELSE IF c \in {BT, DQ, BS} THEN ShellWords(rest, "DoubleQuoted", Append(word, c), words)
            ELSE ShellWords(rest, "DoubleQuoted", Append(Append(word, BS), c), words)
      [] state = "Comment" ->
            IF eof THEN [ok |-> TRUE, parts |-> words]
            ELSE IF c = NL THEN ShellWords(rest, "Delimiter", word, words)
            ELSE ShellWords(rest, "Comment", word, words)

IsSpecial(a) == a \in {SQ, DQ, BS, NL, SPC, BT, "#"}

\* one string is one token: adjacent chunks are merged
RECURSIVE Canon(_)
Canon(tok) ==
    LET pairs == {i \in 1..(Len(tok) - 1) : ~IsSpecial(tok[i]) /\ ~IsSpecial(tok[i + 1])}
        i == CHOOSE k \in pairs : \A j \in pairs : k <= j
    IN  IF pairs = {} THEN tok
        ELSE Canon(SubSeq(tok, 1, i - 1) \o <<tok[i] \o tok[i + 1]>>
                       \o SubSeq(tok, i + 2, Len(tok)))

shell_words_split(text) ==
    LET r == ShellWords(text, "Delimiter", <<>>, <<>>)
    IN  [ok |-> r.ok, parts |-> [i \in 1..Len(r.parts) |-> Canon(r.parts[i])]]

\* ------------------------------------------------------------ vocabularies
\* messages.rs, enum Action (strum serializations)
ActionNames ==
    {"log", "insert", "show", "update", "download", "help", "gui",
     "output_update", "output_push", "key", "restart", "disconnected",
     "publish", "add", "cmd", "upload", "remove", "dest", "open", "popup",
     "insert_panel", "redraw", "sync"}

\* messages.rs, enum Key
KeyNames ==
    {"tab", "up", "down", "left", "right", "alt_c", "alt_up", "alt_down",
     "alt_left", "alt_right", "alt_w", "alt_s", "alt_a", "alt_d", "ctrl_x",
     "ctrl_s", "home", "end"}

\* utils/panel.rs, enum PanelType
PanelTypeNames == {"normal", "popup"}

\* the names the factory switch of Plugins::insert knows
FactoryNames ==
    {"log", "cfg", "system", "cli", "web", "music", "gui", "mqtt", "devices",
     "infos", "script", "weather", "editor", "command", "wol", "ping"}

\* the components that override panel_info and draw
PanelCapable == {"log", "editor", "infos", "mqtt", "command"}

\* str::parse::<u16> on the numerals the inputs use
U16Text == {"0", "1", "3", "10", "20", "30", "40", "50", "100", "101", "65535"}
U16Val(s) ==
    CASE s = "0" -> 0 [] s = "1" -> 1 [] s = "3" -> 3 [] s = "10" -> 10
      [] s = "20" -> 20 [] s = "30" -> 30 [] s = "40" -> 40 [] s = "50" -> 50
      [] s = "100" -> 100 [] s = "101" -> 101 [] s = "65535" -> 65535

\* Vec::get(i), i counted from 0 as in the source
Has(parts, i) == i + 1 <= Len(parts)
Get(parts, i) == parts[i + 1]

\* ------------------------------------------------- messages.rs: senders
Send(module, text) == [op |-> "send", plugin |-> module, cmd |-> text]

cmd(module, text) == <<Send(module, text)>>

\* tokio::spawn of a background task that starts at pc
spawn(task, pc) == <<[op |-> "spawn", task |-> task, pc |-> pc]>>

log(level, module, msg) ==
    cmd(module, <<P, SPC, MODULE_log, SPC, "log", SPC, level, SPC, SQ>>
                    \o Replace(msg) \o <<SQ>>)

info(module, msg) == log("INFO", module, msg)

warn(module, msg) == log("WARN", module, msg)

\* utils/common.rs, MsgTemplate::format
UnsupportedAction(arg1) ==
    <<"Unsupported", SPC, "action:", SPC, BT>> \o arg1 \o <<BT>>

\* a variant that leaves the command out of the message
MissingParametersShort(arg1, arg2, arg3) ==
    <<"Missing", SPC>> \o arg1 \o <<SPC, "for", SPC, BT>> \o arg2 \o <<BT>>

MissingParameters(arg1, arg2, arg3) ==
    <<"Missing", SPC>> \o arg1 \o <<SPC, "for", SPC, BT>> \o arg2
        \o <<BT, SPC, "command:", SPC, BT>> \o arg3 \o <<BT>>

InvalidParameters(arg1, arg2, arg3) ==
    <<"Invalid", SPC>> \o arg1 \o <<SPC, "for", SPC, BT>> \o arg2
        \o <<BT, SPC, "command:", SPC, BT>> \o arg3 \o <<BT>>

\* format!("{} <plugin_name> <action> ...", consts::P)
Usage == <<P, SPC, "<plugin_name>", SPC, "<action>", SPC, "...">>

\* {:?} of a Vec<String>
DebugStr(tok) ==
    <<DQ>> \o Concat([i \in 1..Len(tok) |->
                        IF tok[i] \in {DQ, BS} THEN <<BS, tok[i]>>
                        ELSE IF tok[i] = NL THEN <<BS, "n">>
                        ELSE <<tok[i]>>]) \o <<DQ>>

RECURSIVE DebugList(_)
DebugList(parts) ==
    IF parts = <<>> THEN <<>>
    ELSE IF Len(parts) = 1 THEN DebugStr(parts[1])
    ELSE DebugStr(parts[1]) \o <<",", SPC>> \o DebugList(Tail(parts))

DebugParts(parts) == <<"[">> \o DebugList(parts) \o <<"]">>

\* ------------------------------------------------------------------ state
VARIABLES
    chan,          \* mpsc channel: envelopes accepted and not yet pulled
    capacity,      \* consts::MSG_SIZE of the run
    accepted,      \* number of envelopes the channel accepted so far
    plugins,       \* Plugins.plugins: names in insertion order
    panel_info,    \* PluginUnit.panel_info of each registered panel component
    logs,          \* plugin_log: number of stored lines
    dest,          \* plugin_log: destination
    panels,        \* Plugins.panels (panel_order)
    active_panel,  \* Plugins.active_panel, counted from 0
    active_popup,  \* Plugins.active_popup: NoPopup or Some(index counted from 0)
    terminal,      \* Plugins.terminal: None in CLI mode
    area,          \* Frame::area of a draw: the size of the terminal, at (0, 0)
    mode,          \* arguments::Mode
    shutdown,      \* number of shutdown broadcasts
    d_pc,          \* dispatcher: "idle" | "handling" | "spin" | "crashed" | "exited"
    d_msg,         \* envelope being handled (the last one when idle)
    d_ops,         \* rest of the handler; its head is the await it stands at
    d_pre,         \* registry and compositor state when d_msg was pulled
    trace,         \* what handling d_msg did so far
    handled,       \* number of envelopes pulled
    tab_path,      \* active_panel before and after each of the latest consecutive tabs
    tasks,         \* the background tasks: where each stands and what it has subscribed to
    line,          \* plugin_gui: output, history, history_index and who holds their mutexes
    events,        \* number of timer, keyboard and network events so far
    paced,         \* the producers wait for the bus to be quiescent
    script,        \* the scripted producer: bursts of command lines
    sp,            \* number of script lines sent
    freecmds,      \* command texts of the free producers
    free           \* number of free commands sent

vars == <<chan, capacity, accepted, plugins, panel_info, logs, dest, panels,
          active_panel, active_popup, terminal, area, mode, shutdown, d_pc, d_msg,
          d_ops, d_pre, trace, handled, tab_path, tasks, line, events, paced, script, sp,
          freecmds, free>>

\* plugin_log.rs
LOG_CAPACITY == 1000

\* the part of the state a handler reads and writes
St == [plugins |-> plugins, panel_info |-> panel_info, logs |-> logs,
       dest |-> dest, panels |-> panels, active_panel |-> active_panel,
       active_popup |-> active_popup, terminal |-> terminal, area |-> area, mode |-> mode,
       shutdown |-> shutdown, trace |-> trace, tab_path |-> tab_path, tasks |-> tasks,
       line |-> line]

\* the registry and compositor part
Registry(st) == [plugins |-> st.plugins, panels |-> st.panels,
                 active_panel |-> st.active_panel, active_popup |-> st.active_popup]

\* Plugins::get_plugin / get_plugin_mut
get_plugin(st, name) == \E i \in 1..Len(st.plugins) : <<st.plugins[i]>> = name

PluginOf(st, name) == CHOOSE n \in {st.plugins[i] : i \in 1..Len(st.plugins)} : <<n>> = name

\* Vec::contains
Contains(seq, x) == \E i \in 1..Len(seq) : seq[i] = x

\* PanelInfo::new and the struct literals of the constructors
PanelInfoNew(panel_type) == [panel_type |-> panel_type, x |-> 0, y |-> 0, w |-> 0, h |-> 0]

\* ------------------------------------------- plugins_main.rs: trait Plugin
\* a variant that asks for the registration also when parameters are missing
handle_action_gui_always_registers(name, cmd_parts) ==
    cmd(name, <<P, SPC, MODULE_plugins, SPC, "insert_panel", SPC, name>>)
    \o (IF Has(cmd_parts, 7)
        THEN IF /\ Len(Get(cmd_parts, 3)) = 1
                /\ Get(cmd_parts, 3)[1] \in PanelTypeNames
                /\ \A i \in 4..7 : /\ Len(Get(cmd_parts, i)) = 1
                                   /\ Get(cmd_parts, i)[1] \in U16Text
             THEN <<[op |-> "set_panel_info", plugin |-> name,
                     panel_info |-> [panel_type |-> Get(cmd_parts, 3)[1],
                                     x |-> U16Val(Get(cmd_parts, 4)[1]),
                                     y |-> U16Val(Get(cmd_parts, 5)[1]),
                                     w |-> U16Val(Get(cmd_parts, 6)[1]),
                                     h |-> U16Val(Get(cmd_parts, 7)[1])]]>>
             ELSE <<[op |-> "panic"]>>
        ELSE warn(name, MissingParameters(
                 <<"<panel_type>", SPC, "<x>", SPC, "<y>", SPC, "<width>", SPC, "<height>">>,
                 <<"gui">>, Join(cmd_parts))))

\* Plugin::handle_action_gui: the insert_panel request is sent before the
\* five fields are parsed, and a field that does not parse aborts (unwrap)
handle_action_gui(name, cmd_parts) ==
    IF Has(cmd_parts, 7)
    THEN cmd(name, <<P, SPC, MODULE_plugins, SPC, "insert_panel", SPC, name>>)
         \o (IF /\ Len(Get(cmd_parts, 3)) = 1
                /\ Get(cmd_parts, 3)[1] \in PanelTypeNames
                /\ \A i \in 4..7 : /\ Len(Get(cmd_parts, i)) = 1
                                   /\ Get(cmd_parts, i)[1] \in U16Text
             THEN <<[op |-> "set_panel_info", plugin |-> name,
                     panel_info |-> [panel_type |-> Get(cmd_parts, 3)[1],
                                     x |-> U16Val(Get(cmd_parts, 4)[1]),
                                     y |-> U16Val(Get(cmd_parts, 5)[1]),
                                     w |-> U16Val(Get(cmd_parts, 6)[1]),
                                     h |-> U16Val(Get(cmd_parts, 7)[1])]]>>
             ELSE <<[op |-> "panic"]>>)
    ELSE warn(name, MissingParameters(
                 <<"<panel_type>", SPC, "<x>", SPC, "<y>", SPC, "<width>", SPC, "<height>">>,
                 <<"gui">>, Join(cmd_parts)))

U16_MAX == 65535

saturating_sub(a, b) == IF a >= b THEN a - b ELSE 0

PositionKeys == {"alt_up", "alt_down", "alt_left", "alt_right",
                 "alt_w", "alt_s", "alt_a", "alt_d"}

\* Plugin::handle_action_key_position; an increment of a field that holds
\* u16::MAX is an overflow: the op "overflow" stands for it
handle_action_key_position(name, key, pi) ==
    LET inc == CASE key = "alt_down" -> pi.y
                 [] key = "alt_right" -> pi.x
                 [] key = "alt_s" -> pi.h
                 [] key = "alt_d" -> pi.w
                 [] OTHER -> 0
        new == CASE key = "alt_up" -> [pi EXCEPT !.y = saturating_sub(pi.y, 1)]
                 [] key = "alt_down" -> [pi EXCEPT !.y = (pi.y + 1) % (U16_MAX + 1)]
                 [] key = "alt_left" -> [pi EXCEPT !.x = saturating_sub(pi.x, 1)]
                 [] key = "alt_right" -> [pi EXCEPT !.x = (pi.x + 1) % (U16_MAX + 1)]
                 [] key = "alt_w" -> IF pi.h > 3 THEN [pi EXCEPT !.h = pi.h - 1] ELSE pi
                 [] key = "alt_s" -> [pi EXCEPT !.h = (pi.h + 1) % (U16_MAX + 1)]
                 [] key = "alt_a" -> IF pi.w > 10 THEN [pi EXCEPT !.w = pi.w - 1] ELSE pi
                 [] key = "alt_d" -> [pi EXCEPT !.w = (pi.w + 1) % (U16_MAX + 1)]
                 [] OTHER -> pi
    IN  (IF inc = U16_MAX THEN <<[op |-> "overflow", at |-> "handle_action_key_position"]>>
         ELSE <<>>)
        \o cmd(name, <<P, SPC, MODULE_plugins, SPC, "redraw">>)
        \o <<[op |-> "set_panel_info", plugin |-> name, panel_info |-> new]>>

\* str::parse::<Key>
IsKey(tok) == Len(tok) = 1 /\ tok[1] \in KeyNames

\* ------------------------------------------------------------ plugin_log.rs
\* number of lines of msg.split(NL)
Lines(tok) == 1 + Cardinality({i \in 1..Len(tok) : tok[i] = NL})

log_new == info(MODULE_log, <<MSG_NEW>>)

log_handle_action_log(st, cmd_parts) ==
    IF Has(cmd_parts, 4)
    THEN IF st.mode = "Gui"
         THEN <<[op |-> "logs_push", lines |-> Lines(Get(cmd_parts, 4))]>>
              \o cmd(MODULE_log, <<P, SPC, MODULE_plugins, SPC, "redraw", SPC, MODULE_log>>)
         ELSE <<[op |-> "println"]>>
    ELSE warn(MODULE_log, <<"Incomplete", SPC, "log", SPC, "command:", SPC>>
                              \o DebugParts(cmd_parts))

log_handle_action_key(st, cmd_parts) ==
    IF Has(cmd_parts, 3) /\ IsKey(Get(cmd_parts, 3))
    THEN LET key == Get(cmd_parts, 3)[1] IN
         IF key = "alt_c"
         THEN <<[op |-> "logs_clear"]>>
              \o cmd(MODULE_log, <<P, SPC, MODULE_plugins, SPC, "redraw", SPC, MODULE_log>>)
         ELSE IF key \in PositionKeys
         THEN handle_action_key_position(MODULE_log, key, st.panel_info[MODULE_log])
         ELSE <<>>
    ELSE <<>>

log_handle_action(st, action, cmd_parts) ==
    CASE action = "help" ->
            info(MODULE_log, <<"help">>)
            \o info(MODULE_log, <<SPC, SPC, "dest", SPC, "<dest>">>)
            \o info(MODULE_log, <<SPC, SPC, SPC, SPC, "dest:", SPC, "the", SPC,
                                  "destination", SPC, "IP">>)
      [] action = "show" ->
            info(MODULE_log, <<"show">>)
            \o info(MODULE_log, <<SPC, SPC, "Mode:", SPC, st.mode>>)
            \o info(MODULE_log, <<SPC, SPC, "Dest:", SPC, "dest">>)
            \o info(MODULE_log, <<SPC, SPC, "Panel", SPC, "info:", SPC, "panel_info">>)
      [] action = "log" -> log_handle_action_log(st, cmd_parts)
      [] action = "gui" -> handle_action_gui(MODULE_log, cmd_parts)
      [] action = "dest" ->
            <<[op |-> "set_dest",
               dest |-> IF Has(cmd_parts, 3) THEN Get(cmd_parts, 3) ELSE None]>>
      [] action = "key" -> log_handle_action_key(st, cmd_parts)
      [] OTHER -> warn(MODULE_log, UnsupportedAction(<<action>>))

\* --------------------------------------------------------- plugin_editor.rs
editor_new == info(MODULE_editor, <<MSG_NEW>>) \o info(MODULE_editor, <<MSG_INIT>>)

\* no file is open: output is the empty Vec and the cursor is at (0, 0)
editor_handle_action_key(st, cmd_parts) ==
    IF Has(cmd_parts, 3) /\ IsKey(Get(cmd_parts, 3))
    THEN LET key == Get(cmd_parts, 3)[1] IN
         IF key = "ctrl_x"
         THEN cmd(MODULE_editor, <<P, SPC, MODULE_plugins, SPC, "popup">>)
              \o cmd(MODULE_editor, <<P, SPC, MODULE_plugins, SPC, "redraw">>)
         ELSE IF key \in {"end", "down", "right"}
         THEN <<[op |-> "panic"]>>
         ELSE IF key \in PositionKeys
         THEN handle_action_key_position(MODULE_editor, key, st.panel_info[MODULE_editor])
         ELSE <<>>
    ELSE <<>>

editor_handle_action(st, action, cmd_parts) ==
    CASE action = "help" ->
            info(MODULE_editor, <<"help">>)
            \o info(MODULE_editor, <<SPC, SPC, "open", SPC, "<file_name>">>)
            \o info(MODULE_editor, <<SPC, SPC, "sync">>)
            \o info(MODULE_editor, <<SPC, SPC, "remove", SPC, "<file_name>">>)
      [] action = "show" ->
            info(MODULE_editor, <<"show">>)
            \o info(MODULE_editor, <<SPC, SPC, "Files:">>)
            \o info(MODULE_editor, <<SPC, SPC, SPC, SPC, "(no", SPC, "files)">>)
      [] action = "gui" -> handle_action_gui(MODULE_editor, cmd_parts)
      [] action = "key" -> editor_handle_action_key(st, cmd_parts)
      [] action \in {"open", "sync", "remove"} -> <<[op |-> "file_io"]>>
      [] OTHER -> warn(MODULE_editor, UnsupportedAction(<<action>>))

\* ----------------------------------------------------------- plugin_ping.rs
ping_new == info(MODULE_ping, <<MSG_NEW>>)

ping_handle_action(st, action, cmd_parts) ==
    CASE action = "help" ->
            info(MODULE_ping, <<"help">>)
            \o info(MODULE_ping, <<SPC, SPC, "ping", SPC, "<ip_address>", SPC, "-", SPC, "Ping",
                                   SPC, "the", SPC, "specified", SPC, "IP", SPC, "address.">>)
      [] action = "show" -> info(MODULE_ping, <<"show">>)
      [] OTHER -> warn(MODULE_ping, UnsupportedAction(<<action>>))

\* the lines of script_gui in the script file
ScriptLines == <<<<P, SPC, "foo">>, <<P, SPC, MODULE_log, SPC, "show">>>>

\* plugin_script.rs, PluginUnit::new and init: every line of the script is
\* sent from inside the constructor
script_new(st) ==
    info(MODULE_script, <<MSG_NEW>>)
    \o info(MODULE_script, <<MSG_INIT>>)
    \o info(MODULE_script, <<SPC, SPC, "Running", SPC, "scripts", SPC, "for", SPC,
                             "mode:", SPC, st.mode>>)
    \o [i \in 1..Len(ScriptLines) |-> Send(MODULE_script, ScriptLines[i])]

script_handle_action(st, action, cmd_parts) ==
    CASE action = "help" -> info(MODULE_script, <<"help">>)
      [] action = "show" ->
            info(MODULE_script, <<"show">>)
            \o info(MODULE_script, <<SPC, SPC, "Mode:", SPC, st.mode>>)
            \o info(MODULE_script, <<SPC, SPC, "Script:", SPC, "script.toml">>)
      [] OTHER -> warn(MODULE_script, UnsupportedAction(<<action>>))

\* the cfg component of this revision
cfg_handle_action(st, action, cmd_parts) ==
    CASE action = "show" -> info(MODULE_cfg, <<"show">>)
      [] action = "help" -> info(MODULE_cfg, <<"help">>)
      [] OTHER -> warn(MODULE_cfg, UnsupportedAction(<<action>>))

\* -------------------------------------------------------- plugin_command.rs
\* PluginUnit::new spawns the ticker that asks for a redraw every second
command_new == info(MODULE_command, <<MSG_NEW>>) \o spawn("ticker", "sleep")

command_handle_action(st, action, cmd_parts) ==
    CASE action = "help" -> info(MODULE_command, <<"help">>)
      [] action = "show" -> info(MODULE_command, <<"show">>)
      [] action = "key" ->
            IF Has(cmd_parts, 3)
            THEN cmd(MODULE_command, <<P, SPC, MODULE_gui, SPC, "key", SPC>> \o Get(cmd_parts, 3))
            ELSE warn(MODULE_command,
                      MissingParameters(<<"<key>">>, <<"key">>, Join(cmd_parts)))
      [] action = "gui" -> handle_action_gui(MODULE_command, cmd_parts)
      [] action = "output_update" ->
            IF Has(cmd_parts, 3)
            THEN cmd(MODULE_command, <<P, SPC, MODULE_plugins, SPC, "redraw">>)
            ELSE warn(MODULE_command,
                      MissingParameters(<<"<output>">>, <<"output_update">>, Join(cmd_parts)))
      [] OTHER -> warn(MODULE_command, UnsupportedAction(<<action>>))

\* ----------------------------------------------------------- plugin_mqtt.rs
\* restart: the client is built and the receive loop is spawned; the requests
\* subscribe and publish are queued in the client without the network
mqtt_restart ==
    info(MODULE_mqtt, <<"1/5:", SPC, "Initialization">>)
    \o info(MODULE_mqtt, <<"2/5:", SPC, "Establish", SPC, "connection">>)
    \o info(MODULE_mqtt, <<"3/5:", SPC, "Subscribe">>)
    \o info(MODULE_mqtt, <<"4/5:", SPC, "Publish">>)
    \o spawn("mqtt", "start")

\* fn output_push of plugin_mqtt.rs with level Error
mqtt_output_push(m, msg) ==
    IF m = "Gui"
    THEN cmd(MODULE_mqtt, <<P, SPC, MODULE_mqtt, SPC, "output_push", SPC, SQ,
                            "ts", SPC, "[E]", SPC>> \o msg \o <<SQ>>)
    ELSE log("ERROR", MODULE_mqtt, msg)

mqtt_handle_action(st, action, cmd_parts) ==
    CASE action = "help" -> info(MODULE_mqtt, <<"help">>)
      [] action = "show" ->
            info(MODULE_mqtt, <<"show">>)
            \o info(MODULE_mqtt, <<SPC, SPC, "Mode:", SPC, st.mode>>)
            \o info(MODULE_mqtt, <<SPC, SPC, "MQTT", SPC, "Client", SPC, "connected:", SPC,
                                   "connected">>)
      [] action = "gui" -> handle_action_gui(MODULE_mqtt, cmd_parts)
      [] action = "restart" -> info(MODULE_mqtt, <<"restart">>) \o mqtt_restart
      [] action = "disconnected" -> info(MODULE_mqtt, <<"disconnected">>)
      [] action = "publish" ->
            IF Has(cmd_parts, 5) THEN <<[op |-> "publish"]>>
            ELSE warn(MODULE_mqtt,
                      MissingParameters(<<"<retain>", SPC, "<key>", SPC, "<payload>">>,
                                        <<"publish">>, Join(cmd_parts)))
      [] action = "key" ->
            IF Has(cmd_parts, 3) /\ IsKey(Get(cmd_parts, 3))
            THEN LET key == Get(cmd_parts, 3)[1] IN
                 IF key = "alt_c"
                 THEN cmd(MODULE_mqtt,
                          <<P, SPC, MODULE_plugins, SPC, "redraw", SPC, MODULE_mqtt>>)
                 ELSE IF key \in PositionKeys
                 THEN handle_action_key_position(MODULE_mqtt, key, st.panel_info[MODULE_mqtt])
                 ELSE <<>>
            ELSE <<>>
      [] action = "output_push" ->
            IF Has(cmd_parts, 3)
            THEN cmd(MODULE_mqtt, <<P, SPC, MODULE_plugins, SPC, "redraw">>)
            ELSE warn(MODULE_mqtt,
                      MissingParameters(<<"<output>">>, <<"output_update">>, Join(cmd_parts)))
      [] OTHER -> warn(MODULE_mqtt, UnsupportedAction(<<action>>))

\* ------------------------------------------------------------ plugin_gui.rs
\* fn output_update: the prompt goes to the panels component; the words for
\* Action::OutputUpdate and consts::COMMAND are output_update and command
gui_output_update(msg) ==
    cmd(MODULE_gui, <<P, SPC, MODULE_panels, SPC, "output_update", SPC, "command", SPC, SQ>>
                        \o msg \o <<SQ>>)

\* Plugin::new and init: the input loop and the subtitle timer subscribe to
\* the shutdown broadcast and are spawned
gui_new ==
    info(MODULE_gui, <<MSG_NEW>>)
    \o info(MODULE_gui, <<MSG_INIT>>)
    \o gui_output_update(<<">", SPC>>)
    \o spawn("input", "select")
    \o spawn("subtitle", "select")

PROMPT == <<">", SPC>>

\* handle_cmd_key_up and handle_cmd_key_down once output.lock(),
\* history.lock() and history_index.lock() are through: the three mutexes
\* are always taken in this order and output is taken by every party, so
\* that they have one holder
gui_handle_cmd_key_locked(st, key) ==
    LET l == st.line
        n == Len(l.history)
        i == l.history_index
        moved == IF key = "up"
                 THEN IF i > 0
                      THEN [l EXCEPT !.history_index = i - 1, !.output = l.history[i]]
                      ELSE l
                 ELSE IF i < n
                      THEN [l EXCEPT !.history_index = i + 1,
                                     !.output = IF i + 1 < n THEN l.history[i + 2]
                                                ELSE <<>>]
                      ELSE l
    IN  <<[op |-> "set_line", line |-> moved]>>
        \o gui_output_update(PROMPT \o moved.output)
        \o <<[op |-> "unlock"]>>

\* handle_cmd_key: the handler stands at output.lock().await
gui_handle_cmd_key(st, cmd_parts) ==
    IF Has(cmd_parts, 3) /\ IsKey(Get(cmd_parts, 3))
                         /\ Get(cmd_parts, 3)[1] \in {"up", "down"}
    THEN <<[op |-> "lock", key |-> Get(cmd_parts, 3)[1]]>>
    ELSE <<>>

\* impl plugins_main::Plugin for Plugin, the match on the action
gui_handle_action(st, action, cmd_parts) ==
    CASE action = "help" ->
            info(MODULE_gui, <<"help">>)
            \o info(MODULE_gui, <<SPC, SPC, "help">>)
            \o info(MODULE_gui, <<SPC, SPC, "show">>)
      [] action = "show" -> info(MODULE_gui, <<"show">>)
      [] action = "key" -> gui_handle_cmd_key(st, cmd_parts)
      [] OTHER -> warn(MODULE_gui, UnsupportedAction(<<action>>))

\* dyn Plugin::handle_action
plugin_handle_action(st, name, action, cmd_parts) ==
    CASE name = MODULE_log -> log_handle_action(st, action, cmd_parts)
      [] name = MODULE_editor -> editor_handle_action(st, action, cmd_parts)
      [] name = MODULE_ping -> ping_handle_action(st, action, cmd_parts)
      [] name = MODULE_script -> script_handle_action(st, action, cmd_parts)
      [] name = MODULE_command -> command_handle_action(st, action, cmd_parts)
      [] name = MODULE_mqtt -> mqtt_handle_action(st, action, cmd_parts)
      [] name = MODULE_gui -> gui_handle_action(st, action, cmd_parts)
      [] OTHER -> cfg_handle_action(st, action, cmd_parts)

\* PluginUnit::new of the component the factory builds for a name
plugin_new(st, name) ==
    CASE name = MODULE_log -> log_new
      [] name = MODULE_editor -> editor_new
      [] name = MODULE_ping -> ping_new
      [] name = MODULE_script -> script_new(st)
      [] name = MODULE_command -> command_new
      [] name = MODULE_gui -> gui_new
      [] OTHER -> info(name, <<MSG_NEW>>)

\* -------------------------------------------- plugins_main.rs: impl Plugins
\* the registry's own senders (origin MODULE)
plugins_info(msg) == info(MODULE_plugins, msg)
plugins_warn(msg) == warn(MODULE_plugins, msg)
plugins_cmd(text) == cmd(MODULE_plugins, text)

\* Plugins::insert: Err(message) or the constructor followed by the push
\* a variant without the look-up of the name
insert_again(st, plugin) ==
    IF Len(plugin) = 1 /\ plugin[1] \in FactoryNames
    THEN [ok |-> TRUE,
          ops |-> plugin_new(st, plugin[1]) \o <<[op |-> "push_plugin", plugin |-> plugin[1]]>>,
          err |-> <<>>]
    ELSE [ok |-> FALSE, ops |-> <<>>,
          err |-> <<"Unknown", SPC, "plugin", SPC, "name:", SPC, BT>> \o plugin \o <<BT>>]

insert(st, plugin) ==
    IF get_plugin(st, plugin)
    THEN [ok |-> FALSE, ops |-> <<>>,
          err |-> <<"Plugin", SPC, BT>> \o plugin
                      \o <<BT, SPC, "is", SPC, "already", SPC, "inserted.">>]
    ELSE IF Len(plugin) = 1 /\ plugin[1] \in FactoryNames
    THEN [ok |-> TRUE,
          ops |-> plugin_new(st, plugin[1]) \o <<[op |-> "push_plugin", plugin |-> plugin[1]]>>,
          err |-> <<>>]
    ELSE [ok |-> FALSE, ops |-> <<>>,
          err |-> <<"Unknown", SPC, "plugin", SPC, "name:", SPC, BT>> \o plugin \o <<BT>>]

handle_action_insert(st, cmd_parts) ==
    plugins_info(<<"insert">>)
    \o (IF Has(cmd_parts, 3)
        THEN LET plugin == Get(cmd_parts, 3)
                 r == insert(st, plugin)
             IN  plugins_info(<<SPC, SPC, "-", SPC, BT>> \o plugin \o <<BT>>)
                 \o (IF r.ok THEN r.ops ELSE plugins_warn(r.err))
        ELSE plugins_warn(MissingParameters(<<"<plugin>">>, <<"insert">>, Join(cmd_parts))))

handle_action_show(st) ==
    plugins_info(<<"show">>)
    \o plugins_info(<<SPC, SPC, "-", SPC, "Plugins:">>)
    \o Concat([i \in 1..Len(st.plugins) |->
                 plugins_info(<<SPC, SPC, SPC, SPC, "-", SPC, st.plugins[i]>>)])
    \o plugins_info(<<SPC, SPC, "-", SPC, "Panels:">>)
    \o (IF st.panels = <<>>
        THEN plugins_info(<<SPC, SPC, SPC, SPC, "-", SPC, "<none>">>)
        ELSE Concat([i \in 1..Len(st.panels) |->
                       plugins_info(<<SPC, SPC, SPC, SPC, "-", SPC>> \o st.panels[i])]))

handle_action_help ==
    plugins_info(<<"help">>)
    \o plugins_info(<<SPC, SPC, "insert", SPC, "<plugin>">>)

\* the type PanelInfo of the component registered under a panel name
PanelType(st, panel) == st.panel_info[PluginOf(st, panel)].panel_type

\* panel_info() panics for a component without the panel capability
PanelInfoPanics(st, panel) == get_plugin(st, panel) /\ PluginOf(st, panel) \notin PanelCapable

IsNormal(st, panel) ==
    get_plugin(st, panel) /\ ~PanelInfoPanics(st, panel) /\ PanelType(st, panel) = "normal"

IsPopup(st, panel) ==
    get_plugin(st, panel) /\ ~PanelInfoPanics(st, panel) /\ PanelType(st, panel) = "popup"

\* indices i..n-1 (counted from 0) that satisfy keep
RECURSIVE Indices(_, _, _)
Indices(i, n, keep) ==
    IF i >= n THEN <<>>
    ELSE (IF keep[i] THEN <<i>> ELSE <<>>) \o Indices(i + 1, n, keep)

\* ------------------------------------------------------------ utils/panel.rs
min(a, b) == IF a <= b THEN a ELSE b

\* u16 subtraction in a build without overflow checks
wrapping_sub(a, b) == (a - b + U16_MAX + 1) % (U16_MAX + 1)

\* (a as f32 * p as f32 / 100.0).round() as u16: the nearest integer, a half
\* away from zero, and the cast saturates at u16::MAX. The product is exact
\* in f32 below 2^24; from 2^24 on its hundredth is above u16::MAX.
RoundPercentDown(a, p) == min((a * p) \div 100, U16_MAX)
RoundPercent(a, p) == min(((a * p) + 50) \div 100, U16_MAX)

\* caculate_position; the three rows under the usable height are taken off
\* with a u16 subtraction
caculate_position(ar, x, y, w, h) ==
    LET width == ar.width
        height == wrapping_sub(ar.height, 3)
    IN  [x |-> RoundPercent(width, x), y |-> RoundPercent(height, y),
         w |-> RoundPercent(width, w), h |-> RoundPercent(height, h)]

\* panel_rect; Frame::area is at (0, 0)
panel_rect(x, y, width, height, ar) ==
    [x |-> x, y |-> y,
     width |-> min(width, saturating_sub(ar.width, x)),
     height |-> min(height, saturating_sub(ar.height, y))]

\* PluginUnit::draw of a panel component: the rectangle it clears and draws
\* into. The command component draws a bar of three rows under the usable
\* height; the other components draw at their stored percentages.
plugin_draw(st, plugin) ==
    IF plugin = MODULE_command
    THEN panel_rect(0, wrapping_sub(st.area.height, 3), st.area.width, 3, st.area)
    ELSE LET pi == st.panel_info[plugin]
             pos == caculate_position(st.area, pi.x, pi.y, pi.w, pi.h)
         IN  panel_rect(pos.x, pos.y, pos.w, pos.h, st.area)

\* a u16 operation of PluginUnit::draw overflows: height - 3 of the frame,
\* area_height - 3 of the panel, or the cursor position of the editor
plugin_draw_overflows(st, plugin) ==
    \/ st.area.height < 3
    \/ /\ plugin # MODULE_command
       /\ plugin_draw(st, plugin).height < 3
    \/ /\ plugin = MODULE_editor
       /\ \/ plugin_draw(st, plugin).x + 1 > U16_MAX
          \/ plugin_draw(st, plugin).y + 1 > U16_MAX

\* a variant that draws the active panel at active style under a popup too
draw_active_under_popup(st, idx) == idx = st.active_panel

\* the argument active of a Normal panel's draw:
\* active_popup.is_none() && idx == active_panel
draw_active(st, idx) == st.active_popup = NoPopup /\ idx = st.active_panel

\* Plugins::draw: the calls of plugin.draw(frame, active), in order
draw(st) ==
    LET n == Len(st.panels)
        panel(i) == st.panels[i + 1]
        first == Indices(0, n, [i \in 0..(n - 1) |->
                        i # st.active_panel /\ IsNormal(st, panel(i))])
        second == Indices(0, n, [i \in 0..(n - 1) |->
                        i = st.active_panel /\ IsNormal(st, panel(i))])
        popup == IF st.active_popup = NoPopup THEN <<>>
                 ELSE Indices(0, n, [i \in 0..(n - 1) |->
                        Some(i) = st.active_popup /\ IsPopup(st, panel(i))])
        call(i, active) == [panel |-> panel(i), idx |-> i, active |-> active,
                            info |-> st.panel_info[PluginOf(st, panel(i))],
                            rect |-> plugin_draw(st, PluginOf(st, panel(i)))]
    IN  [panics |-> \E i \in 0..(n - 1) : PanelInfoPanics(st, panel(i)),
         overflows |-> \E i \in 0..(n - 1) :
                          /\ \/ IsNormal(st, panel(i))
                             \/ IsPopup(st, panel(i)) /\ Some(i) = st.active_popup
                          /\ plugin_draw_overflows(st, PluginOf(st, panel(i))),
         calls |-> [k \in 1..Len(first) |->
                        call(first[k], draw_active(st, first[k]))]
                   \o [k \in 1..Len(second) |->
                        call(second[k], draw_active(st, second[k]))]
                   \o [k \in 1..Len(popup) |-> call(popup[k], TRUE)]]

\* Plugins::redraw
redraw == <<[op |-> "redraw"]>>

handle_action_redraw == redraw

\* a variant without the contains test
handle_action_insert_panel_again(st, cmd_parts) ==
    plugins_info(<<"insert_panel">>)
    \o (IF Has(cmd_parts, 3)
        THEN LET panel == Get(cmd_parts, 3) IN
             plugins_info(<<SPC, SPC, "-", SPC, BT>> \o panel \o <<BT>>)
             \o <<[op |-> "push_panel", panel |-> panel]>>
             \o redraw
        ELSE plugins_warn(MissingParameters(<<"<panel>">>, <<"insert_panel">>,
                                            Join(cmd_parts))))

handle_action_insert_panel(st, cmd_parts) ==
    plugins_info(<<"insert_panel">>)
    \o (IF Has(cmd_parts, 3)
        THEN LET panel == Get(cmd_parts, 3) IN
             IF ~Contains(st.panels, panel)
             THEN plugins_info(<<SPC, SPC, "-", SPC, BT>> \o panel \o <<BT>>)
                  \o <<[op |-> "push_panel", panel |-> panel]>>
                  \o redraw
             ELSE plugins_warn(<<"Panel", SPC, BT>> \o panel
                      \o <<BT, SPC, "is", SPC, "already", SPC, "inserted.">>)
        ELSE plugins_warn(MissingParameters(<<"<panel>">>, <<"insert_panel">>,
                                            Join(cmd_parts))))

\* the loop of handle_action_key_tab from index a, the k-th panel it looks at:
\* it ends at a panel that is not a popup, never ends at a panel without a
\* registered component or when every panel is a popup, and aborts in
\* panel_info() of a component without the panel capability
\* a variant that stops at the first panel
TabScanFirst(st, a, k) == [kind |-> "ok", idx |-> a]

RECURSIVE TabScan(_, _, _)
TabScan(st, a, k) ==
    LET n == Len(st.panels)
        panel == st.panels[a + 1]
    IN  IF ~get_plugin(st, panel) THEN [kind |-> "spin", idx |-> a]
        ELSE IF PanelInfoPanics(st, panel) THEN [kind |-> "panic", idx |-> a]
        ELSE IF PanelType(st, panel) = "popup"
             THEN IF k = n THEN [kind |-> "spin", idx |-> (a + 1) % n]
                  ELSE TabScan(st, (a + 1) % n, k + 1)
             ELSE [kind |-> "ok", idx |-> a]

handle_action_key_tab == <<[op |-> "key_tab"]>> \o redraw

handle_action_key_key(st, key) ==
    IF st.active_popup = NoPopup
    THEN IF st.active_panel < Len(st.panels)
         THEN plugins_cmd(<<P, SPC>> \o st.panels[st.active_panel + 1]
                              \o <<SPC, "key", SPC, key>>)
         ELSE <<[op |-> "panic"]>>
    ELSE plugins_cmd(<<P, SPC>> \o st.panels[st.active_popup[1] + 1]
                         \o <<SPC, "key", SPC, key>>)

handle_action_key(st, cmd_parts) ==
    IF Has(cmd_parts, 3) /\ IsKey(Get(cmd_parts, 3))
    THEN LET key == Get(cmd_parts, 3)[1] IN
         IF key = "tab" THEN handle_action_key_tab
         ELSE IF key = "ctrl_s" THEN <<>>
         ELSE handle_action_key_key(st, key)
    ELSE <<>>

\* a variant that counts the panels from 1
enumerate_find_from_one(panels_, panel) ==
    CHOOSE i \in 1..Len(panels_) :
        /\ panels_[i] = panel
        /\ \A j \in 1..(i - 1) : panels_[j] # panel

\* panels.iter().enumerate() up to the first entry equal to panel: its index,
\* counted from 0
enumerate_find(panels_, panel) ==
    (CHOOSE i \in 1..Len(panels_) :
        /\ panels_[i] = panel
        /\ \A j \in 1..(i - 1) : panels_[j] # panel) - 1

\* a variant that leaves an active popup in place
handle_action_popup_keep(st, cmd_parts) ==
    plugins_info(<<"popup">>)
    \o (IF Has(cmd_parts, 3)
        THEN LET panel == Get(cmd_parts, 3) IN
             IF Contains(st.panels, panel) /\ st.active_popup = NoPopup
             THEN <<[op |-> "set_popup",
                     popup |-> Some(enumerate_find(st.panels, panel))]>>
             ELSE <<>>
        ELSE <<[op |-> "set_popup", popup |-> NoPopup]>>)
    \o redraw

handle_action_popup(st, cmd_parts) ==
    plugins_info(<<"popup">>)
    \o (IF Has(cmd_parts, 3)
        THEN LET panel == Get(cmd_parts, 3) IN
             IF Contains(st.panels, panel)
             THEN <<[op |-> "set_popup",
                     popup |-> Some(enumerate_find(st.panels, panel))]>>
             ELSE <<>>
        ELSE <<[op |-> "set_popup", popup |-> NoPopup]>>)
    \o redraw

my_handle_action(st, action, cmd_parts) ==
    CASE action = "help" -> handle_action_help
      [] action = "show" -> handle_action_show(st)
      [] action = "insert" -> handle_action_insert(st, cmd_parts)
      [] action = "insert_panel" -> handle_action_insert_panel(st, cmd_parts)
      [] action = "redraw" -> handle_action_redraw
      [] action = "key" -> handle_action_key(st, cmd_parts)
      [] action = "popup" -> handle_action_popup(st, cmd_parts)
      [] OTHER -> plugins_warn(UnsupportedAction(<<action>>))

\* fn get_action inside handle_cmd
\* a variant that falls back to the action show
get_action_or_show(cmd_parts) ==
    IF Has(cmd_parts, 2) /\ Len(Get(cmd_parts, 2)) = 1 /\ Get(cmd_parts, 2)[1] \in ActionNames
    THEN [ok |-> TRUE, action |-> Get(cmd_parts, 2)[1], err |-> <<>>]
    ELSE [ok |-> TRUE, action |-> "show", err |-> <<>>]

get_action(cmd_parts) ==
    IF ~Has(cmd_parts, 2)
    THEN [ok |-> FALSE, action |-> "",
          err |-> MissingParameters(<<"<action>">>, Usage, Join(cmd_parts))]
    ELSE IF Len(Get(cmd_parts, 2)) = 1 /\ Get(cmd_parts, 2)[1] \in ActionNames
    THEN [ok |-> TRUE, action |-> Get(cmd_parts, 2)[1], err |-> <<>>]
    ELSE [ok |-> FALSE, action |-> "",
          err |-> InvalidParameters(<<"<action>", SPC, "(", BT>> \o Get(cmd_parts, 2)
                                        \o <<BT, ")">>, Usage, Join(cmd_parts))]

Call(name, action, cmd_parts, msg) ==
    [op |-> "call", plugin |-> name, action |-> action, cmd_parts |-> cmd_parts, msg |-> msg]

\* Plugins::handle_cmd once the command text is split
dispatch(st, msg, split) ==
    LET cmd_parts == split.parts
    IN  IF ~split.ok
        THEN plugins_warn(<<"Failed", SPC, "to", SPC, "parse", SPC, "cmd", SPC, BT>>
                              \o msg.cmd \o <<BT, ".">>)
        ELSE IF ~Has(cmd_parts, 1)
        THEN plugins_warn(MissingParameters(<<"<plugin_name>">>, Usage, Join(cmd_parts)))
        ELSE LET plugin_name == Get(cmd_parts, 1)
                 a == get_action(cmd_parts)
             IN  IF plugin_name = <<MODULE_plugins>>
                 THEN IF ~a.ok THEN plugins_warn(a.err)
                      ELSE <<Call(MODULE_plugins, a.action, cmd_parts, msg)>>
                           \o my_handle_action(st, a.action, cmd_parts)
                 ELSE IF get_plugin(st, plugin_name)
                 THEN IF ~a.ok THEN plugins_warn(a.err)
                      ELSE <<Call(plugin_name[1], a.action, cmd_parts, msg)>>
                           \o plugin_handle_action(st, plugin_name[1], a.action, cmd_parts)
                 ELSE plugins_warn(InvalidParameters(
                          <<"<plugin_name>", SPC, "(", BT>> \o plugin_name \o <<BT, ")">>,
                          Usage, Join(cmd_parts)))

\* a variant that splits the command text at blanks only
handle_cmd_split_whitespace(st, msg) ==
    dispatch(st, msg, [ok |-> TRUE, parts |-> split_whitespace(msg.cmd)])

\* Plugins::handle_cmd
handle_cmd(st, msg) == dispatch(st, msg, shell_words_split(msg.cmd))

\* ------------------------------------------------------------- messages.rs
\* handle_msg / handle_msg_cmd
handle_msg_cmd(st, msg) ==
    LET cmd_parts == split_whitespace(StripComment(msg.cmd)) IN
    IF cmd_parts = <<>>
    THEN info(MODULE_messages, <<>>)
    ELSE LET command == Canon(cmd_parts[1]) IN
         IF command = <<P>> THEN handle_cmd(st, msg)
         ELSE IF command \in {<<Q>>, <<QUIT>>, <<EXIT>>} THEN <<[op |-> "shutdown"]>>
         ELSE warn(MODULE_messages,
                   <<"Unknown", SPC, "command:", SPC, BT>> \o cmd_parts[1] \o <<BT>>)

\* --------------------------------------------------- running a handler
Trace(st, ev) == [st EXCEPT !.trace = Append(@, ev)]

\* a task at pc whose receiver was made by shutdown_tx.subscribe() after n
\* broadcasts; flag is the task's own shutdown flag
Subscribed(pc, n) == [pc |-> pc, sub |-> n, flag |-> FALSE]


\* one step of a handler that is no await
Apply(st, o) ==
    CASE o.op = "call" ->
            Trace(st, [ev |-> "call", plugin |-> o.plugin, action |-> o.action,
                       cmd_parts |-> o.cmd_parts, msg |-> o.msg])
      [] o.op = "push_plugin" ->
            [st EXCEPT !.plugins = Append(@, o.plugin),
                       !.panel_info = IF o.plugin \in PanelCapable
                                      THEN (o.plugin :> PanelInfoNew("normal")) @@ @
                                      ELSE @]
      [] o.op = "set_panel_info" ->
            Trace([st EXCEPT !.panel_info[o.plugin] = o.panel_info],
                  [ev |-> "panel_info", plugin |-> o.plugin,
                   old |-> st.panel_info[o.plugin], new |-> o.panel_info])
      [] o.op = "push_panel" -> [st EXCEPT !.panels = Append(@, o.panel)]
      [] o.op = "set_popup" -> [st EXCEPT !.active_popup = o.popup]
      [] o.op = "set_dest" -> [st EXCEPT !.dest = o.dest]
      [] o.op = "logs_push" ->
            [st EXCEPT !.logs = IF @ + o.lines > LOG_CAPACITY THEN @ + o.lines - 1
                                ELSE @ + o.lines]
      [] o.op = "logs_clear" -> [st EXCEPT !.logs = 0]
      [] o.op = "set_line" -> [st EXCEPT !.line = o.line]
      [] o.op = "unlock" -> [st EXCEPT !.line.holder = None]
      [] o.op = "shutdown" -> Trace([st EXCEPT !.shutdown = @ + 1], [ev |-> "shutdown"])
      [] o.op = "spawn" -> [st EXCEPT !.tasks[o.task] = Subscribed(o.pc, st.shutdown)]
      [] o.op \in {"redraw", "redrawn"} ->
            Trace(st, [ev |-> "redraw", area |-> st.area, calls |-> draw(st).calls,
                       active_panel |-> st.active_panel,
                       active_popup |-> st.active_popup,
                       types |-> [i \in 1..Len(st.panels) |->
                                    IF IsNormal(st, st.panels[i]) THEN "normal"
                                    ELSE IF IsPopup(st, st.panels[i]) THEN "popup"
                                    ELSE None]])
      [] o.op = "key_tab" ->
            IF st.active_popup = NoPopup
            THEN LET idx == TabScan(st, (st.active_panel + 1) % Len(st.panels), 1).idx IN
                 [st EXCEPT !.active_panel = idx,
                            !.tab_path = IF @ = <<>> THEN <<st.active_panel, idx>>
                                         ELSE Append(@, idx)]
            ELSE [st EXCEPT !.tab_path = <<>>]
      [] OTHER -> Trace(st, [ev |-> o.op])

\* a variant in which a failed unwrap is passed over
Outcome_unwrap_or_default(st, o) ==
    CASE o.op = "panic" -> "ok"
      [] o.op = "redraw" ->
            IF st.terminal = None \/ draw(st).panics THEN "panic" ELSE "ok"
      [] o.op = "key_tab" ->
            IF st.active_popup # NoPopup THEN "ok"
            ELSE IF Len(st.panels) = 0 THEN "panic"
            ELSE TabScan(st, (st.active_panel + 1) % Len(st.panels), 1).kind
      [] OTHER -> "ok"

\* where a step that is no await ends: "ok", "panic" (the panic hook exits
\* the process) or "spin" (a loop that never ends)
Outcome(st, o) ==
    CASE o.op = "panic" -> "panic"
      [] o.op = "redraw" ->
            IF st.terminal = None \/ draw(st).panics THEN "panic" ELSE "ok"
      [] o.op = "key_tab" ->
            IF st.active_popup # NoPopup THEN "ok"
            ELSE IF Len(st.panels) = 0 THEN "panic"
            ELSE TabScan(st, (st.active_panel + 1) % Len(st.panels), 1).kind
      [] OTHER -> "ok"

IsAwait(o) == o.op \in {"send", "overflow", "lock"}

\* a redraw that gets as far as a u16 overflow in a component's draw: the
\* overflow panics or wraps, and the wrapped draw goes on ("redrawn")
DrawOverflows(st, o) ==
    o.op = "redraw" /\ Outcome(st, o) = "ok" /\ draw(st).overflows

\* run the handler up to its next await or overflow
RECURSIVE Run(_, _)
Run(st, ops) ==
    IF ops = <<>> THEN [st |-> st, ops |-> <<>>, pc |-> "idle"]
    ELSE IF IsAwait(Head(ops)) THEN [st |-> st, ops |-> ops, pc |-> "handling"]
    ELSE IF DrawOverflows(st, Head(ops))
    THEN [st |-> st, pc |-> "handling",
          ops |-> <<[op |-> "overflow", at |-> "draw"], [op |-> "redrawn"]>> \o Tail(ops)]
    ELSE LET out == Outcome(st, Head(ops)) IN
         IF out = "panic"
         THEN [st |-> Trace(st, [ev |-> "panic", at |-> Head(ops).op]),
               ops |-> <<>>, pc |-> "crashed"]
         ELSE IF out = "spin"
         THEN [st |-> Apply(st, Head(ops)), ops |-> <<>>, pc |-> "spin"]
         ELSE Run(Apply(st, Head(ops)), Tail(ops))

Envelope(n, module, text) == [seq |-> n, plugin |-> module, cmd |-> text]

NoMsg == [seq |-> 0, plugin |-> "", cmd |-> <<>>]

\* the dispatcher stands at the result r of Run
Resume(r) ==
    /\ plugins' = r.st.plugins
    /\ panel_info' = r.st.panel_info
    /\ logs' = r.st.logs
    /\ dest' = r.st.dest
    /\ panels' = r.st.panels
    /\ active_panel' = r.st.active_panel
    /\ active_popup' = r.st.active_popup
    /\ terminal' = r.st.terminal
    /\ shutdown' = r.st.shutdown
    /\ trace' = r.st.trace
    /\ tab_path' = r.st.tab_path
    /\ tasks' = r.st.tasks
    /\ line' = r.st.line
    /\ d_ops' = r.ops
    /\ d_pc' = r.pc

\* the state a handler starts from: an envelope that is no tab ends the run
\* of consecutive tabs
Pulled(ops) ==
    [St EXCEPT !.trace = <<>>,
               !.tab_path = IF \E i \in 1..Len(ops) : ops[i].op = "key_tab" THEN @ ELSE <<>>]

\* ---------------------------------------------------------------- actions
\* a variant that takes the newest envelope of the channel
RecvNewest ==
    /\ d_pc = "idle"
    /\ chan # <<>>
    /\ chan' = SubSeq(chan, 1, Len(chan) - 1)
    /\ d_msg' = chan[Len(chan)]
    /\ d_pre' = Registry(St)
    /\ handled' = handled + 1
    /\ Resume(Run(Pulled(handle_msg_cmd(St, chan[Len(chan)])),
                   handle_msg_cmd(St, chan[Len(chan)])))
    /\ UNCHANGED <<area, capacity, accepted, mode, events, paced, script, sp, freecmds, free>>

\* messages.rs, the loop of the dispatcher task: msg_rx.recv() and handle_msg
Recv ==
    /\ d_pc = "idle"
    /\ chan # <<>>
    /\ chan' = Tail(chan)
    /\ d_msg' = Head(chan)
    /\ d_pre' = Registry(St)
    /\ handled' = handled + 1
    /\ Resume(Run(Pulled(handle_msg_cmd(St, Head(chan))), handle_msg_cmd(St, Head(chan))))
    /\ UNCHANGED <<area, capacity, accepted, mode, events, paced, script, sp, freecmds, free>>

\* the await the dispatcher stands at completes: msg_tx.send(..) once the
\* channel has room, Mutex::lock once the mutex is free; an overflowing
\* increment panics or wraps
Continue ==
    /\ d_pc = "handling"
    /\ IF Head(d_ops).op = "lock"
       THEN /\ line.holder = None
            /\ LET locked == [St EXCEPT !.line.holder = "dispatcher"] IN
               Resume(Run(locked, gui_handle_cmd_key_locked(locked, Head(d_ops).key)
                                      \o Tail(d_ops)))
            /\ UNCHANGED <<chan, accepted>>
       ELSE IF Head(d_ops).op = "send"
       THEN /\ Len(chan) < capacity
            /\ accepted < MaxEnvelopes
            /\ LET env == Envelope(accepted + 1, Head(d_ops).plugin, Head(d_ops).cmd) IN
               /\ chan' = Append(chan, env)
               /\ accepted' = accepted + 1
               /\ Resume(Run(Trace(St, [ev |-> "send", msg |-> env]), Tail(d_ops)))
       ELSE /\ \E wraps \in BOOLEAN :
                 Resume(IF wraps THEN Run(St, Tail(d_ops))
                        ELSE [st |-> Trace(St, [ev |-> "overflow", at |-> Head(d_ops).at]),
                              ops |-> <<>>, pc |-> "crashed"])
            /\ UNCHANGED <<chan, accepted>>
    /\ UNCHANGED <<area, capacity, mode, d_msg, d_pre, handled, events, paced, script, sp, freecmds,
                   free>>

ProducerVars == <<plugins, panel_info, logs, dest, panels, active_panel, active_popup,
                  terminal, mode, shutdown, d_pc, d_msg, d_ops, d_pre, trace, handled,
                  tab_path, tasks, line, events>>

\* nothing is queued and the dispatcher waits in msg_rx.recv()
Quiescent == d_pc = "idle" /\ chan = <<>>

\* a producer that waits for the effect of a command before it sends the
\* next one (paced = TRUE) sends when the bus is quiescent; the other
\* producers send whenever the channel has room
MaySend(n) ==
    /\ d_pc \notin {"crashed", "exited"}
    /\ Len(chan) + n <= capacity
    /\ paced => Quiescent

RECURSIVE Burst(_, _, _)
Burst(ch, n, texts) ==
    IF texts = <<>> THEN ch
    ELSE Burst(Append(ch, Envelope(n + 1, "script", Head(texts))), n + 1, Tail(texts))

\* a variant whose producer task puts a panel into panel_order itself
ProduceAndInsertPanel ==
    /\ sp < Len(script)
    /\ MaySend(Len(script[sp + 1]))
    /\ chan' = Burst(chan, accepted, script[sp + 1])
    /\ accepted' = accepted + Len(script[sp + 1])
    /\ sp' = sp + 1
    /\ panels' = Append(panels, <<MODULE_cfg>>)
    /\ UNCHANGED <<area, capacity, paced, script, freecmds, free>>
    /\ UNCHANGED <<plugins, panel_info, logs, dest, active_panel, active_popup,
                   terminal, mode, shutdown, d_pc, d_msg, d_ops, d_pre, trace, handled,
                  tab_path, tasks, line, events>>

\* messages.rs, cmd: a producer task sends the next lines of its script
\* back to back
Produce ==
    /\ sp < Len(script)
    /\ MaySend(Len(script[sp + 1]))
    /\ chan' = Burst(chan, accepted, script[sp + 1])
    /\ accepted' = accepted + Len(script[sp + 1])
    /\ sp' = sp + 1
    /\ UNCHANGED <<area, capacity, paced, script, freecmds, free>>
    /\ UNCHANGED ProducerVars

\* messages.rs, cmd: another producer task sends a command
ProduceFree ==
    /\ free < MaxFree
    /\ MaySend(1)
    /\ \E c \in freecmds :
          chan' = Append(chan, Envelope(accepted + 1, "web", c))
    /\ accepted' = accepted + 1
    /\ free' = free + 1
    /\ UNCHANGED <<area, capacity, paced, script, sp, freecmds>>
    /\ UNCHANGED ProducerVars

Next == Recv \/ Continue \/ Produce \/ ProduceFree

\* the background tasks: the terminal-restore hook of Plugins::init, the
\* redraw ticker of the command component, the receive loop of the mqtt
\* component, and the input loop and the subtitle timer of the gui component;
\* main itself, which holds the first receiver of the shutdown broadcast
TaskNames == {"hook", "ticker", "mqtt", "input", "subtitle", "main"}

\* the state once main has inserted log and cfg, the dispatcher task runs
\* and the start-up log lines are drained
InitFilled(scripts, cmds, cap, modes, pace, areas, fills) ==
    /\ mode \in modes
    /\ area \in areas
    /\ chan = <<>>
    /\ capacity = cap
    /\ accepted = 0
    /\ plugins = <<MODULE_log, MODULE_cfg>>
    /\ panel_info = (MODULE_log :> PanelInfoNew("normal"))
    /\ logs \in IF mode = "Gui" THEN fills ELSE {0}
    /\ dest = None
    /\ panels = <<>>
    /\ active_panel = 0
    /\ active_popup = NoPopup
    /\ terminal = IF mode = "Gui" THEN "terminal" ELSE None
    /\ shutdown = 0
    /\ d_pc = "idle"
    /\ d_msg = NoMsg
    /\ d_ops = <<>>
    /\ trace = <<>>
    /\ tab_path = <<>>
    /\ tasks = [t \in TaskNames |->
                   IF t = "hook" /\ mode = "Gui" THEN Subscribed("waiting", 0)
                   ELSE IF t = "main" THEN Subscribed("sleep", 0)
                   ELSE Subscribed("none", 0)]
    /\ line = [output |-> <<>>, history |-> <<>>, history_index |-> 0, holder |-> None]
    /\ events = 0
    /\ d_pre = Registry(St)
    /\ handled = 0
    /\ paced = pace
    /\ script \in scripts
    /\ sp = 0
    /\ freecmds = cmds
    /\ free = 0

\* the same with the eight start-up lines in the buffer of the log component
InitWith(scripts, cmds, cap, modes, pace, areas) ==
    InitFilled(scripts, cmds, cap, modes, pace, areas, {8})

\* ----------------------------------------------------------------- inputs
\* a terminal of 80 columns and 24 rows
Area80x24 == [width |-> 80, height |-> 24]

\* a command line of blank-separated words
Line(words) == Join([i \in 1..Len(words) |-> <<words[i]>>])

InsertEditor == Line(<<"p", "plugins", "insert", "editor">>)
InsertPing == Line(<<"p", "plugins", "insert", "ping">>)
InsertBogus == Line(<<"p", "plugins", "insert", "bogus">>)
InsertLog == Line(<<"p", "plugins", "insert", "log">>)
GuiLogNormal == Line(<<"p", "log", "gui", "normal", "10", "20", "30", "40">>)
GuiLogPopup == Line(<<"p", "log", "gui", "popup", "0", "0", "50", "50">>)
GuiEditorNormal == Line(<<"p", "editor", "gui", "normal", "50", "0", "50", "100">>)
GuiEditorPopup == Line(<<"p", "editor", "gui", "popup", "10", "10", "50", "50">>)
InsertPanelLog == Line(<<"p", "plugins", "insert_panel", "log">>)
InsertPanelGhost == Line(<<"p", "plugins", "insert_panel", "ghost">>)
KeyTab == Line(<<"p", "plugins", "key", "tab">>)
KeyUp == Line(<<"p", "plugins", "key", "up">>)
PopupEditor == Line(<<"p", "plugins", "popup", "editor">>)
PopupNone == Line(<<"p", "plugins", "popup">>)
Redraw == Line(<<"p", "plugins", "redraw">>)
LogShow == Line(<<"p", "log", "show">>)
\* p 'log' "show" with\ blank
LogShowQuoted == <<"p", SPC, SQ, "log", SQ, SPC, DQ, "show", DQ, SPC, "with", BS, SPC, "blank">>
LogUpload == Line(<<"p", "log", "upload">>)
PFoo == Line(<<"p", "foo">>)
PLog == Line(<<"p", "log">>)
PLogBogus == Line(<<"p", "log", "bogus", "x">>)
PPlugins == Line(<<"p", "plugins">>)
PPluginsBogus == Line(<<"p", "plugins", "Insert", "editor">>)
PFooShow == Line(<<"p", "foo", "show">>)
POnly == <<"p">>
\* p log 'show   (the quote is never closed)
Unterminated == <<"p", SPC, "log", SPC, SQ, "show">>
Blank == <<SPC>>
Unknown == Line(<<"hello", "world">>)

DispatchCmds ==
    {InsertEditor, InsertBogus, InsertLog, GuiEditorNormal, InsertPanelLog, KeyTab,
     LogShow, LogShowQuoted, LogUpload, PFoo, PLog, PLogBogus, PPlugins,
     PPluginsBogus, PFooShow, POnly, Unterminated, Blank, Unknown, Redraw}

DispatchScripts ==
    {<<<<GuiLogNormal>>, <<InsertEditor>>, <<GuiEditorNormal>>, <<KeyTab>>, <<KeyTab>>>>,
     <<<<InsertEditor>>, <<GuiEditorPopup>>, <<GuiLogNormal>>, <<KeyTab>>, <<KeyTab>>>>,
     <<<<GuiLogPopup>>, <<InsertPing>>, <<InsertPanelGhost, InsertPanelLog>>, <<InsertEditor>>>>,
     <<<<InsertPanelLog, InsertPanelLog>>, <<PFoo>>, <<PLogBogus, GuiLogNormal, KeyTab>>>>}

Init == InitWith(DispatchScripts, DispatchCmds, CapLarge, {"Gui"}, TRUE, {Area80x24})

Spec == Init /\ [][Next]_vars

\* ------------------------------------------------------- the bus under load
InsertScript == Line(<<"p", "plugins", "insert", "script">>)

BusCmds == {PFoo, LogShow, InsertScript}

BusScripts ==
    {<<<<PFoo>>, <<PLog>>, <<InsertPanelLog>>, <<LogShow>>>>,
     <<<<GuiLogNormal>>, <<PFooShow>>, <<Redraw>>, <<PLogBogus>>>>}

\* producers that send whenever the channel has room, and a channel of
\* CapSmall envelopes
InitBus == InitWith(BusScripts, BusCmds, CapSmall, {"Gui"}, FALSE, {Area80x24})

Bus == InitBus /\ [][Next]_vars

\* the step Recv seen at the counter of pulled envelopes: Recv is the only
\* action that changes handled, and it can be taken exactly when the
\* dispatcher is idle and the channel holds an envelope
Pull == d_pc = "idle" /\ chan # <<>> /\ handled' = handled + 1

\* tokio runs the dispatcher task whenever it can take a step: it pulls the
\* next envelope when one is queued and resumes at an await that can complete
FairBus == Bus /\ WF_handled(Pull) /\ WF_vars(Continue)

\* --------------------------------------------------- panels, popups and keys
PopupLog == Line(<<"p", "plugins", "popup", "log">>)
PopupGhost == Line(<<"p", "plugins", "popup", "ghost">>)
KeyCtrlX == Line(<<"p", "plugins", "key", "ctrl_x">>)
KeyCtrlS == Line(<<"p", "plugins", "key", "ctrl_s">>)
KeyAltC == Line(<<"p", "plugins", "key", "alt_c">>)
KeyAltUp == Line(<<"p", "plugins", "key", "alt_up">>)
KeyHome == Line(<<"p", "plugins", "key", "home">>)
KeyBogus == Line(<<"p", "plugins", "key", "enter">>)

PanelCmds ==
    {PopupEditor, PopupLog, PopupNone, PopupGhost, KeyTab, KeyUp, KeyCtrlX, KeyCtrlS,
     KeyAltC, KeyAltUp, KeyHome, KeyBogus, GuiLogPopup, GuiEditorNormal, Redraw}

PanelScripts ==
    {<<<<GuiLogNormal>>, <<InsertEditor>>, <<GuiEditorPopup>>, <<PopupEditor>>,
       <<KeyCtrlX>>, <<KeyUp>>>>,
     <<<<InsertEditor>>, <<GuiEditorPopup>>, <<GuiLogNormal>>, <<KeyUp>>, <<KeyTab>>>>,
     <<<<GuiLogPopup>>, <<InsertEditor>>, <<GuiEditorPopup>>, <<PopupLog>>,
       <<PopupEditor>>, <<KeyHome>>>>,
     <<<<GuiLogNormal>>, <<InsertEditor>>, <<GuiEditorNormal>>, <<KeyTab>>, <<KeyTab>>,
       <<GuiLogPopup>>>>,
     <<<<InsertEditor>>, <<GuiEditorNormal>>, <<GuiLogPopup>>, <<PopupLog>>,
       <<KeyCtrlX>>, <<KeyUp>>>>}

\* producers that wait for the effect of a command, GUI mode
InitPanels == InitWith(PanelScripts, PanelCmds, CapLarge, {"Gui"}, TRUE, {Area80x24})

Panels == InitPanels /\ [][Next]_vars

\* ------------------------------------------------------------ both modes
ModeCmds == {Redraw, KeyTab, PopupNone, PopupLog, InsertPanelLog, PFoo}

ModeScripts ==
    {<<<<LogShow>>, <<Redraw>>, <<PFoo>>>>,
     <<<<InsertPanelLog>>, <<KeyTab>>, <<PopupLog>>>>,
     <<<<PopupNone>>, <<PFoo>>>>,
     <<<<GuiLogNormal>>, <<KeyTab>>, <<Redraw>>>>,
     <<<<PFoo>>, <<KeyTab>>>>}

\* producers that wait for the effect of a command, --mode gui or --mode cli
InitModes == InitWith(ModeScripts, ModeCmds, CapLarge, {"Gui", "Cli"}, TRUE, {Area80x24})

Modes == InitModes /\ [][Next]_vars

\* ------------------------------------------------------------ cascades
InsertPanelPlugins == Line(<<"p", "plugins", "insert_panel", "plugins">>)

CascadeCmds == {KeyUp, KeyTab, PFoo, PLog, Redraw}

CascadeScripts ==
    {<<<<InsertPanelPlugins>>, <<KeyUp>>>>,
     <<<<GuiLogNormal>>, <<KeyUp>>, <<LogShow>>>>,
     <<<<InsertEditor>>, <<GuiEditorPopup>>, <<PopupEditor>>, <<KeyUp>>>>,
     <<<<PLog>>, <<Unknown>>, <<InsertPanelLog>>>>}

\* producers that wait until the bus is quiescent, GUI mode
InitCascade == InitWith(CascadeScripts, CascadeCmds, CapLarge, {"Gui"}, TRUE, {Area80x24})

Cascade == InitCascade /\ [][Next]_vars

\* --------------------------------------------------------- background tasks
\* what a background task leaves alone
TaskLeaves == <<plugins, panel_info, logs, dest, panels, active_panel, active_popup,
                terminal, mode, shutdown, d_pc, d_msg, d_ops, d_pre, trace, handled,
                tab_path, line, area, capacity, paced, script, sp, freecmds, free>>

\* the process runs: neither the panic hook nor the return of main has ended
\* it
Running == d_pc \notin {"crashed", "exited"}

\* broadcast::Receiver::recv of task t is ready: a value was sent after the
\* receiver was made
Observes(t) == shutdown > tasks[t].sub

\* msg_tx.send(..).await of task t completes and the task goes on at pc
TaskSend(t, module, text, pc) ==
    /\ Len(chan) < capacity
    /\ chan' = Append(chan, Envelope(accepted + 1, module, text))
    /\ accepted' = accepted + 1
    /\ tasks' = [tasks EXCEPT ![t].pc = pc]
    /\ UNCHANGED events

\* a timer, the keyboard or the network wakes task t, which goes on at pc
TaskEvent(t, pc) ==
    /\ events < MaxEvents
    /\ events' = events + 1
    /\ tasks' = [tasks EXCEPT ![t].pc = pc]
    /\ UNCHANGED <<chan, accepted>>

\* plugins_main.rs, init: the task that waits for the shutdown broadcast and
\* restores the terminal
RestoreHook ==
    /\ Running
    /\ tasks["hook"].pc = "waiting"
    /\ Observes("hook")
    /\ tasks' = [tasks EXCEPT !["hook"].pc = "restored"]
    /\ UNCHANGED <<chan, accepted, events>>
    /\ UNCHANGED TaskLeaves

\* plugin_command.rs, new: loop { sleep(1 s); cmd(p plugins redraw) }
Tick ==
    /\ Running
    /\ \/ tasks["ticker"].pc = "sleep" /\ TaskEvent("ticker", "send")
       \/ /\ tasks["ticker"].pc = "send"
          /\ TaskSend("ticker", MODULE_command, <<P, SPC, MODULE_plugins, SPC, "redraw">>,
                      "sleep")
    /\ UNCHANGED TaskLeaves

\* plugin_gui.rs, update_subtitle: select between the one-second timer and
\* the shutdown broadcast; the word for Action::SubTitle is sub_title
Subtitle ==
    /\ Running
    /\ \/ /\ tasks["subtitle"].pc = "select"
          /\ \/ TaskEvent("subtitle", "send")
             \/ /\ Observes("subtitle")
                /\ tasks' = [tasks EXCEPT !["subtitle"].pc = "exited"]
                /\ UNCHANGED <<chan, accepted, events>>
       \/ /\ tasks["subtitle"].pc = "send"
          /\ TaskSend("subtitle", MODULE_gui,
                      <<P, SPC, MODULE_panels, SPC, "sub_title", SPC, "command", SPC, SQ,
                        SPC, "-", SPC, "sys_name", SPC, "(version)", SPC, "-", SPC, "ts", SQ>>,
                      "select")
    /\ UNCHANGED TaskLeaves

\* plugin_gui.rs, start_input_loop: select between a key of the keyboard
\* thread and the shutdown broadcast; Tab is sent on as p panels key tab, Esc
\* is a key without an arm in handle_keycode
InputLoop ==
    /\ Running
    /\ \/ /\ tasks["input"].pc = "select"
          /\ \/ \E key \in {"Tab", "Esc"} :
                   TaskEvent("input", IF key = "Tab" THEN "send" ELSE "select")
             \/ /\ Observes("input")
                /\ tasks' = [tasks EXCEPT !["input"].pc = "exited", !["input"].flag = TRUE]
                /\ UNCHANGED <<chan, accepted, events>>
       \/ /\ tasks["input"].pc = "send"
          /\ TaskSend("input", MODULE_gui, <<P, SPC, MODULE_panels, SPC, "key", SPC, "tab">>,
                      "select")
    /\ UNCHANGED TaskLeaves

\* plugin_mqtt.rs, the task of restart: select between connection.poll() and
\* the shutdown broadcast, then the farewell messages, then the restart
\* unless the shutdown was seen
MqttTask ==
    /\ Running
    /\ \/ /\ tasks["mqtt"].pc = "start"
          /\ TaskSend("mqtt", MODULE_mqtt,
                      info(MODULE_mqtt, <<"5/5:", SPC, "Receive">>)[1].cmd, "select")
       \/ /\ tasks["mqtt"].pc = "select"
          /\ \/ \E event \in {"Ok", "Err"} :
                   TaskEvent("mqtt", IF event = "Ok" THEN "select" ELSE "push")
             \/ /\ Observes("mqtt")
                /\ tasks' = [tasks EXCEPT !["mqtt"].pc = "warn", !["mqtt"].flag = TRUE]
                /\ UNCHANGED <<chan, accepted, events>>
       \/ /\ tasks["mqtt"].pc = "push"
          /\ TaskSend("mqtt", MODULE_mqtt,
                      mqtt_output_push(mode, <<"Event", SPC, "loop", SPC, "error:", SPC,
                                               "e">>)[1].cmd, "warn")
       \/ /\ tasks["mqtt"].pc = "warn"
          /\ TaskSend("mqtt", MODULE_mqtt,
                      warn(MODULE_mqtt, <<"MQTT", SPC, "client", SPC,
                                          "disconnecting...">>)[1].cmd, "disconnected")
       \/ /\ tasks["mqtt"].pc = "disconnected"
          /\ TaskSend("mqtt", MODULE_mqtt, <<P, SPC, MODULE_mqtt, SPC, "disconnected">>,
                      IF tasks["mqtt"].flag THEN "exited" ELSE "restart")
       \/ /\ tasks["mqtt"].pc = "restart"
          /\ TaskSend("mqtt", MODULE_mqtt, <<P, SPC, MODULE_mqtt, SPC, "restart">>, "exited")
    /\ UNCHANGED TaskLeaves

\* plugin_gui.rs, the arms of handle_keycode that edit the line, in the task
\* of start_input_loop: a character or a backspace changes output under its
\* mutex and sends the prompt; Enter takes the three mutexes, stores the
\* line in the history, sends the line as a command, then the prompt; every
\* send is awaited with the mutexes held
InputLine ==
    /\ Running
    /\ \/ /\ tasks["input"].pc = "select"
          /\ \E key \in {"char", "backspace", "enter"} : TaskEvent("input", key)
          /\ UNCHANGED line
       \/ /\ tasks["input"].pc \in {"char", "backspace", "enter"}
          /\ line.holder = None
          /\ LET out == line.output
                 his == line.history
             IN  line' =
                   CASE tasks["input"].pc = "char" ->
                          [line EXCEPT !.holder = "input", !.output = Append(out, "x")]
                     [] tasks["input"].pc = "backspace" ->
                          [line EXCEPT !.holder = "input",
                                       !.output = SubSeq(out, 1, Len(out) - 1)]
                     [] OTHER ->
                          IF his = <<>> \/ his[Len(his)] # out
                          THEN [line EXCEPT !.holder = "input",
                                            !.history = Append(his, out),
                                            !.history_index = Len(his) + 1]
                          ELSE [line EXCEPT !.holder = "input"]
          /\ tasks' = [tasks EXCEPT !["input"].pc =
                          IF tasks["input"].pc = "enter" THEN "enter_cmd" ELSE "update"]
          /\ UNCHANGED <<chan, accepted, events>>
       \/ /\ tasks["input"].pc = "enter_cmd"
          /\ TaskSend("input", MODULE_gui, line.output, "update")
          /\ line' = [line EXCEPT !.output = <<>>]
       \/ /\ tasks["input"].pc = "update"
          /\ TaskSend("input", MODULE_gui,
                      gui_output_update(PROMPT \o line.output)[1].cmd, "select")
          /\ line' = [line EXCEPT !.holder = None]
    /\ UNCHANGED <<plugins, panel_info, logs, dest, panels, active_panel, active_popup,
                   terminal, mode, shutdown, d_pc, d_msg, d_ops, d_pre, trace, handled,
                   tab_path, area, capacity, paced, script, sp, freecmds, free>>

\* the dispatcher, the producers and the background tasks while main sleeps;
\* NextProcess adds the steps of main itself
NextTasks == Next \/ RestoreHook \/ Tick \/ Subtitle \/ InputLoop \/ MqttTask

InsertCommand == Line(<<"p", "plugins", "insert", "command">>)
InsertMqtt == Line(<<"p", "plugins", "insert", "mqtt">>)
InsertGui == Line(<<"p", "plugins", "insert", "gui">>)
MqttRestart == Line(<<"p", "mqtt", "restart">>)
CmdQ == <<Q>>
CmdQuit == <<QUIT>>
CmdExit == Line(<<EXIT, "now">>)
TaskCmds == {CmdQ, CmdQuit, CmdExit}
TaskScripts ==
    {<<<<InsertCommand>>, <<CmdQ>>>>,
     <<<<InsertMqtt>>, <<MqttRestart>>, <<CmdQuit>>>>,
     <<<<InsertGui>>, <<CmdExit>>>>}
InitTasks == InitWith(TaskScripts, TaskCmds, CapLarge, {"Gui"}, TRUE, {Area80x24})
Tasks == InitTasks /\ [][NextTasks]_vars

\* ------------------------------------------------------------ the log buffer
LogOneLine == <<"p", SPC, "log", SPC, "log", SPC, "INFO", SPC, SQ, "a", SQ>>
\* a message of two lines
LogTwoLines == <<"p", SPC, "log", SPC, "log", SPC, "INFO", SPC, SQ, "a", NL, "b", SQ>>
LogThreeLines ==
    <<"p", SPC, "log", SPC, "log", SPC, "WARN", SPC, DQ, "a", NL, "b", NL, "c", DQ>>
LogClear == Line(<<"p", "log", "key", "alt_c">>)

\* numbers of lines in the buffer: after the start-up, and after enough
\* one-line messages to reach LOG_CAPACITY
LogFills == {8, LOG_CAPACITY - 1, LOG_CAPACITY}

LogCmds == {LogOneLine, LogTwoLines, LogClear, PFoo}

LogScripts ==
    {<<<<LogOneLine>>, <<LogOneLine>>, <<LogTwoLines>>>>,
     <<<<LogTwoLines>>, <<LogShow>>, <<LogOneLine>>>>,
     <<<<LogThreeLines>>, <<LogClear>>, <<LogTwoLines>>>>}

InitLogBuffer ==
    InitFilled(LogScripts, LogCmds, CapLarge, {"Gui"}, TRUE, {Area80x24}, LogFills)

LogBuffer == InitLogBuffer /\ [][Next]_vars

\* ------------------------------------------------------------ line editing
GuiKeyUp == Line(<<"p", "gui", "key", "up">>)
GuiKeyDown == Line(<<"p", "gui", "key", "down">>)
GuiShow == Line(<<"p", "gui", "show">>)

\* a burst that fills the channel, with a key for the gui component first
KeyAndFill(key) == <<key>> \o [i \in 1..(CapMedium - 1) |-> PFoo]

LineCmds == {GuiKeyDown}

LineScripts ==
    {<<<<InsertGui>>, <<GuiKeyUp>>, <<GuiShow>>>>,
     <<<<InsertGui>>, KeyAndFill(GuiKeyUp)>>}

NextLine == Next \/ InputLoop \/ InputLine \/ Subtitle

InitLine == InitWith(LineScripts, LineCmds, CapMedium, {"Gui"}, TRUE, {Area80x24})
LineEditing == InitLine /\ [][NextLine]_vars

\* ------------------------------------------------------ the process as a whole
\* main.rs, main after Messages::new: the sleep of ten seconds ends and main
\* sends the shutdown broadcast; then main waits for a value on its own
\* receiver, returns, and the process ends with it
Main ==
    /\ Running
    /\ \/ /\ tasks["main"].pc = "sleep"
          /\ shutdown' = shutdown + 1
          /\ tasks' = [tasks EXCEPT !["main"].pc = "recv"]
          /\ UNCHANGED d_pc
       \/ /\ tasks["main"].pc = "recv"
          /\ Observes("main")
          /\ tasks' = [tasks EXCEPT !["main"].pc = "returned"]
          /\ d_pc' = "exited"
          /\ UNCHANGED shutdown
    /\ UNCHANGED <<chan, accepted, events, plugins, panel_info, logs, dest, panels,
                   active_panel, active_popup, terminal, mode, d_msg, d_ops, d_pre, trace,
                   handled, tab_path, line, area, capacity, paced, script, sp, freecmds,
                   free>>

\* the runs of a process without the mqtt component
NextProcess == Next \/ RestoreHook \/ Tick \/ Subtitle \/ InputLoop \/ Main

ProcessCmds == {PFoo}
ProcessScripts ==
    {<<<<InsertCommand>>>>,
     <<<<InsertGui>>, <<Redraw>>>>,
     <<<<InsertCommand>>, <<CmdQ>>>>,
     <<<<CmdExit>>>>}
InitProcess == InitWith(ProcessScripts, ProcessCmds, CapLarge, {"Gui"}, TRUE, {Area80x24})
Process == InitProcess /\ [][NextProcess]_vars

\* tokio runs every task that can take a step, the dispatcher included
FairTasks ==
    /\ Tasks
    /\ WF_handled(Pull)
    /\ WF_vars(Continue)
    /\ WF_tasks(RestoreHook)
    /\ WF_tasks(Subtitle)
    /\ WF_tasks(InputLoop)
    /\ WF_tasks(MqttTask)

\* p plugins key <code> for every code of the key vocabulary
KeyCmd(code) == Line(<<"p", "plugins", "key", code>>)

\* the geometry of panels: terminals of several sizes, gui commands and
\* the keys that move and resize the active panel
Areas == {[width |-> 5, height |-> 2], [width |-> 5, height |-> 8],
          [width |-> 80, height |-> 3], Area80x24}
GuiLog(panel_type, x, y, w, h) == Line(<<"p", "log", "gui", panel_type, x, y, w, h>>)
GuiLogHalf == GuiLog("normal", "50", "50", "50", "50")
GuiLogWide == GuiLog("normal", "50", "50", "100", "100")
GuiLogFull == GuiLog("normal", "0", "0", "100", "100")
GuiLogOver == GuiLog("normal", "101", "0", "65535", "100")
GuiLogLow == GuiLog("normal", "0", "0", "10", "3")
GuiLogBadType == GuiLog("bogus", "0", "0", "50", "50")
GuiLogBadNumber == GuiLog("normal", "0", "0", "50", "abc")
GuiLogShort == Line(<<"p", "log", "gui", "normal", "0", "0", "50">>)
GuiCommand == Line(<<"p", "command", "gui", "normal", "10", "20", "30", "40">>)
GeometryCmds ==
    {GuiLogHalf, GuiLogWide, GuiLogOver, GuiLogBadType, GuiLogBadNumber, GuiLogShort,
     KeyCmd("alt_s"), KeyCmd("alt_d")}
GeometryScripts ==
    {<<<<GuiLogNormal>>, <<KeyCmd("alt_down")>>, <<KeyCmd("alt_w")>>>>,
     <<<<GuiLogLow>>, <<KeyCmd("alt_w")>>, <<KeyCmd("alt_a")>>, <<KeyCmd("alt_up")>>>>,
     <<<<GuiLogFull>>, <<KeyCmd("alt_s")>>, <<KeyCmd("alt_right")>>, <<KeyCmd("alt_up")>>>>,
     <<<<InsertCommand>>, <<GuiCommand>>, <<GuiLogHalf>>, <<KeyTab>>, <<KeyCmd("alt_a")>>>>,
     <<<<GuiLogOver>>, <<KeyCmd("alt_d")>>, <<InsertEditor>>, <<GuiEditorPopup>>,
       <<PopupEditor>>, <<KeyCmd("alt_left")>>>>}
InitGeometry == InitWith(GeometryScripts, GeometryCmds, CapLarge, {"Gui"}, TRUE, Areas)
Geometry == InitGeometry /\ [][Next]_vars

\* command texts with a comment
\* p plugins popup # note
CommentNote == Line(<<"p", "plugins", "popup", "#", "note">>)
\* p log dest a#b
CommentInWord == <<"p", SPC, "log", SPC, "dest", SPC, "a", "#", "b">>
\* p log dest 'a # b'
CommentQuoted == <<"p", SPC, "log", SPC, "dest", SPC, SQ, "a", SPC, "#", SPC, "b", SQ>>
\* # p log show
CommentOnly == Line(<<"#", "p", "log", "show">>)
\* p # log show
CommentAfterP == Line(<<"p", "#", "log", "show">>)
\* quit # later
CommentQuit == Line(<<QUIT, "#", "later">>)
CommentCmds == {CommentNote, CommentInWord, CommentQuoted, CommentOnly, CommentAfterP,
                CommentQuit, LogShow}
CommentScripts ==
    {<<<<GuiLogPopup>>, <<PopupLog>>, <<CommentNote>>, <<CommentInWord>>>>,
     <<<<CommentQuoted>>, <<CommentAfterP>>, <<CommentOnly>>, <<CommentQuit>>>>}
InitComments == InitWith(CommentScripts, CommentCmds, CapLarge, {"Gui"}, TRUE, {Area80x24})
Comments == InitComments /\ [][Next]_vars

KeyCmds == {KeyCmd(code) : code \in KeyNames}
KeyScripts ==
    {<<<<GuiLogNormal>>, <<InsertEditor>>, <<GuiEditorPopup>>, <<PopupEditor>>>>,
     <<<<InsertEditor>>, <<GuiEditorNormal>>, <<GuiLogNormal>>, <<KeyTab>>>>}
InitKeys == InitWith(KeyScripts, KeyCmds, CapLarge, {"Gui"}, TRUE, {Area80x24})
Keys == InitKeys /\ [][Next]_vars

\* ------------------------------------------------- reading the last dispatch
\* handling d_msg is complete
Done == d_msg # NoMsg /\ d_pc = "idle"

\* the dispatcher routed d_msg to Plugins::handle_cmd
RoutedToRegistry ==
    LET words == split_whitespace(StripComment(d_msg.cmd))
    IN  d_msg # NoMsg /\ words # <<>> /\ Canon(words[1]) = <<P>>

\* the shell words of d_msg
Tokens == shell_words_split(d_msg.cmd).parts

Tokenized == RoutedToRegistry /\ shell_words_split(d_msg.cmd).ok

HandlerCalls == SelectSeq(trace, LAMBDA e : e.ev = "call")

Sent == SelectSeq(trace, LAMBDA e : e.ev = "send")

Redraws == SelectSeq(trace, LAMBDA e : e.ev = "redraw")

\* an envelope p log log WARN <text>
IsWarning(m) ==
    LET r == shell_words_split(m.cmd)
    IN  /\ r.ok
        /\ Len(r.parts) = 5
        /\ SubSeq(r.parts, 1, 4) = <<<<P>>, <<MODULE_log>>, <<"log">>, <<"WARN">>>>

WarningText(m) == shell_words_split(m.cmd).parts[5]

Warnings == SelectSeq(Sent, LAMBDA e : IsWarning(e.msg))

\* sub occurs in text as a run of consecutive atoms
Occurs(sub, text) ==
    \E i \in 0..(Len(text) - Len(sub)) : SubSeq(text, i + 1, i + Len(sub)) = sub

RegistryUnchanged == Registry(St) = d_pre

NoDuplicates(seq) == \A i, j \in 1..Len(seq) : seq[i] = seq[j] => i = j

IsPrefix(a, b) == Len(a) <= Len(b) /\ SubSeq(b, 1, Len(a)) = a

WasRegistered(name) == get_plugin(d_pre, name)

ActionParses(tok) == Len(tok) = 1 /\ tok[1] \in ActionNames

\* -------------------------------------------------------------- properties
\* C1: a command p <name> <action> [args...] whose name is a registered
\* component and whose action is in the vocabulary invokes that component's
\* handle_action exactly once, with the action, all shell words of the
\* command text and the envelope itself, and invokes no other handler.
C1_OneHandlerCall ==
    (/\ Tokenized
     /\ Has(Tokens, 2)
     /\ WasRegistered(Get(Tokens, 1))
     /\ ActionParses(Get(Tokens, 2)))
    => HandlerCalls = <<[ev |-> "call", plugin |-> Get(Tokens, 1)[1],
                         action |-> Get(Tokens, 2)[1], cmd_parts |-> Tokens,
                         msg |-> d_msg]>>

\* the quoted command reached the log component as four shell words
C1_Witness ==
    /\ d_msg.cmd = LogShowQuoted
    /\ Len(HandlerCalls) = 1
    /\ HandlerCalls[1].plugin = MODULE_log
    /\ HandlerCalls[1].action = "show"
    /\ HandlerCalls[1].cmd_parts = <<<<"p">>, <<"log">>, <<"show">>, <<"with", SPC, "blank">>>>
    /\ HandlerCalls[1].msg = d_msg

\* the action token of d_msg is missing or outside the vocabulary and the
\* command names the registry or a registered component
C2_BadAction ==
    /\ Tokenized
    /\ Has(Tokens, 1)
    /\ Get(Tokens, 1) = <<MODULE_plugins>> \/ WasRegistered(Get(Tokens, 1))
    /\ ~Has(Tokens, 2) \/ ~ActionParses(Get(Tokens, 2))

\* C2: a p-command whose action token is missing or not in the vocabulary
\* enqueues exactly one warning, invokes no handler and leaves the registry
\* and the compositor state unchanged.
C2_BadActionOneWarning ==
    C2_BadAction =>
        /\ HandlerCalls = <<>>
        /\ RegistryUnchanged
        /\ Len(Sent) <= 1
        /\ Done => Len(Sent) = 1 /\ Len(Warnings) = 1

C2_Witness ==
    /\ Done
    /\ d_msg.cmd \in {PLogBogus, PPluginsBogus}
    /\ Len(Warnings) = 1
    /\ HandlerCalls = <<>>

\* d_msg is p <name> without an action, or names a component that is not
\* registered
C3_Malformed ==
    /\ Tokenized
    /\ Has(Tokens, 1)
    /\ \/ Len(Tokens) = 2
       \/ Get(Tokens, 1) # <<MODULE_plugins>> /\ ~WasRegistered(Get(Tokens, 1))

\* C3: p foo, for a registered or an unregistered name foo, produces exactly
\* one warning whose text contains the name, invokes no handler and leaves
\* the registry and the compositor state unchanged; a command that names an
\* unknown component is dropped with one warning.
C3_MalformedOneWarning ==
    C3_Malformed =>
        /\ HandlerCalls = <<>>
        /\ RegistryUnchanged
        /\ Len(Sent) <= 1
        /\ Done => /\ Len(Sent) = 1
                   /\ Len(Warnings) = 1
                   /\ Occurs(Get(Tokens, 1), WarningText(Warnings[1].msg))

C3_Witness ==
    /\ Done
    /\ d_msg.cmd = PFoo
    /\ Len(Warnings) = 1
    /\ Occurs(<<"foo">>, WarningText(Warnings[1].msg))
    /\ RegistryUnchanged

\* d_msg is p plugins <action> <arg> ...
RegistryCommand(action) ==
    /\ Tokenized
    /\ Has(Tokens, 3)
    /\ Get(Tokens, 1) = <<MODULE_plugins>>
    /\ Get(Tokens, 2) = <<action>>

InFactory(name) == Len(name) = 1 /\ name[1] \in FactoryNames

C9_InsertPanelIdempotent ==
    /\ NoDuplicates(panels)
    /\ RegistryCommand("insert_panel") =>
          LET panel == Get(Tokens, 3) IN
          IF Contains(d_pre.panels, panel)
          THEN /\ RegistryUnchanged
               /\ Redraws = <<>>
               /\ Done => Len(Warnings) = 1
          ELSE /\ panels \in {d_pre.panels, Append(d_pre.panels, panel)}
               /\ active_panel = d_pre.active_panel
               /\ active_popup = d_pre.active_popup
               /\ Done => /\ panels = Append(d_pre.panels, panel)
                          /\ Len(Redraws) = 1
                          /\ Warnings = <<>>

\* the second of two insert_panel log was refused
C9_Witness ==
    /\ Done
    /\ d_msg.cmd = InsertPanelLog
    /\ d_pre.panels = <<<<MODULE_log>>>>
    /\ panels = <<<<MODULE_log>>>>
    /\ Len(Warnings) = 1

\* C10: with no popup active and at least one panel that is not a popup,
\* a completed key tab leaves active_panel at a panel whose type is not
\* popup, whatever panels were inserted before.
C10_TabSkipsPopups ==
    (/\ Done
     /\ RegistryCommand("key")
     /\ Get(Tokens, 3) = <<"tab">>
     /\ d_pre.active_popup = NoPopup
     /\ \E i \in 1..Len(panels) : ~IsPopup(St, panels[i]))
    => /\ active_panel \in 0..(Len(panels) - 1)
       /\ ~IsPopup(St, panels[active_panel + 1])
       /\ IsNormal(St, panels[active_panel + 1])

\* a tab from the only normal panel went over a popup panel and came back
C10_Witness ==
    /\ Done
    /\ d_msg.cmd = KeyTab
    /\ Len(panels) = 2
    /\ IsPopup(St, panels[1])
    /\ d_pre.active_panel = 1
    /\ active_panel = 1

\* the channel holds the accepted envelopes that are not yet pulled, oldest
\* first, and the envelope in hand is the last one pulled
InAcceptOrder ==
    /\ Len(chan) = accepted - handled
    /\ \A i \in 1..Len(chan) : chan[i].seq = handled + i
    /\ d_msg # NoMsg => d_msg.seq = handled

\* an envelope is pulled only from the head and only when the handler of the
\* one before has completed; every send goes behind what is queued
PullsAfterCompletion ==
    /\ handled' # handled =>
          /\ d_pc = "idle" /\ d_ops = <<>>
          /\ handled' = handled + 1
          /\ d_msg' = Head(chan)
          /\ chan' = Tail(chan)
    /\ accepted' # accepted =>
          /\ IsPrefix(chan, chan')
          /\ handled' = handled

\* C4: envelopes are handled in the order in which the channel accepted
\* them, the handling of one envelope with all its sends completes before
\* the next one is pulled, and a follow-up is queued behind every envelope
\* already in the channel.
C4_ArrivalOrder == []InAcceptOrder /\ [][PullsAfterCompletion]_vars

\* a follow-up of the handler waits behind an envelope of a producer
C4_Witness ==
    /\ Len(chan) = 2
    /\ chan[1].plugin = "script"
    /\ chan[2].plugin = MODULE_plugins
    /\ d_pc = "idle"
    /\ handled >= 1

\* C5: every envelope a producer sends is eventually pulled and processed
\* exactly once, also when the channel is full and producers wait for
\* capacity.
C5_EveryEnvelopeProcessed == []<>(d_pc = "idle" /\ handled = accepted)

\* C6: the dispatcher never waits forever in a send of its own onto the
\* channel, also when the channel is at capacity.
C6_SendCompletes == (d_pc = "handling") ~> (d_pc # "handling")

\* a step of the dispatcher task
DispatcherStep ==
    \/ d_pc = "idle" /\ handled' = handled + 1
    \/ d_pc = "handling" /\ handled' = handled /\ d_ops' # d_ops

\* the component set, the compositor state and the draws stay as they are
\* in every step that is not a step of the dispatcher, and a handler starts
\* only when none runs
OnlyDispatcherMutates ==
    /\ (\/ Registry(St)' # Registry(St)
        \/ panel_info' # panel_info
        \/ logs' # logs
        \/ trace' # trace) => DispatcherStep
    /\ (HandlerCalls' # HandlerCalls /\ HandlerCalls' # <<>>) => d_pc = "idle"

\* C7: at most one handler runs at any time, and the component set, the
\* compositor state and the terminal draws change or happen only in steps
\* of the dispatcher task, never in a producer task.
C7_SingleDispatcher == [](Len(HandlerCalls) <= 1) /\ [][OnlyDispatcherMutates]_vars

\* the dispatcher has drawn a panel while envelopes of producers wait
C7_Witness ==
    /\ panels # <<>>
    /\ Redraws # <<>>
    /\ chan # <<>>
    /\ chan[1].plugin \in {"script", "web"}

\* C11: in every reachable state in which no popup is active and at least
\* one non-popup panel is in panel_order, active_panel indexes a non-popup
\* panel, whatever the type of the first inserted panel and after a panel
\* type is changed by a later gui command.
C11_ActivePanelIsNormal ==
    (/\ active_popup = NoPopup
     /\ \E i \in 1..Len(panels) : IsNormal(St, panels[i]))
    => /\ active_panel < Len(panels)
       /\ IsNormal(St, panels[active_panel + 1])

\* the indices (counted from 0) of the Normal panels of panel_order
NormalIndices == {i \in 0..(Len(panels) - 1) : IsNormal(St, panels[i + 1])}

\* the Normal panel that follows index a in panel_order, cyclically
NextNormal(a) ==
    LET n == Len(panels)
        d == CHOOSE k \in 1..n :
                /\ ((a + k) % n) \in NormalIndices
                /\ \A j \in 1..(k - 1) : ((a + j) % n) \notin NormalIndices
    IN  (a + d) % n

\* C12: with N >= 1 normal panels and no popup active, N consecutive key tab
\* commands return active_panel to its starting value after visiting every
\* normal panel exactly once in panel_order order, popup panels skipped.
C12_TabCycle ==
    LET N == Cardinality(NormalIndices) IN
    (/\ d_pc = "idle"
     /\ active_popup = NoPopup
     /\ N >= 1
     /\ Len(tab_path) >= N + 1)
    => /\ tab_path[N + 1] = tab_path[1]
       /\ {tab_path[k] : k \in 2..(N + 1)} = NormalIndices
       /\ \A k \in 1..N : tab_path[k + 1] = NextNormal(tab_path[k])

\* the same for runs of tabs that start at a Normal panel
C12_TabCycleFromNormal ==
    (tab_path # <<>> /\ tab_path[1] \in NormalIndices) => C12_TabCycle

\* two tabs over the normal panels log and editor came back to the start
C12_Witness ==
    /\ d_pc = "idle"
    /\ active_popup = NoPopup
    /\ Cardinality(NormalIndices) = 2
    /\ Len(tab_path) = 3
    /\ tab_path[1] \in NormalIndices
    /\ tab_path[3] = tab_path[1]
    /\ tab_path[2] # tab_path[1]

\* the index (counted from 0) of the first occurrence of x in seq
FirstIndex(seq, x) ==
    (CHOOSE i \in 1..Len(seq) : seq[i] = x /\ \A j \in 1..(i - 1) : seq[j] # x) - 1

\* the draw calls of redraw event r that draw a Popup-typed panel
PopupDraws(r) == SelectSeq(r.calls, LAMBDA c : IsPopup(St, c.panel))

\* the command p <panel> key <code> the registry forwards
KeyFor(panel, code) == <<P, SPC>> \o panel \o <<SPC, "key", SPC>> \o code

\* C13: at most one popup is active in every reachable state: after popup X
\* and then popup Y, both registered popup panels, Y is the only active
\* popup and keys are routed to Y's component only.
C13_OnePopup ==
    /\ Len(active_popup) <= 1
    /\ \A k \in 1..Len(Redraws) : Len(PopupDraws(Redraws[k])) <= 1
    /\ (/\ Done
        /\ RegistryCommand("popup")
        /\ Contains(panels, Get(Tokens, 3))
        /\ IsPopup(St, Get(Tokens, 3)))
       => active_popup = Some(FirstIndex(panels, Get(Tokens, 3)))
    /\ (RegistryCommand("key") /\ d_pre.active_popup # NoPopup)
       => /\ Len(Sent) <= 1
          /\ \A k \in 1..Len(Sent) :
                Sent[k].msg.cmd = KeyFor(d_pre.panels[d_pre.active_popup[1] + 1],
                                         Get(Tokens, 3))

\* popup editor was dispatched while the popup log was active: editor is
\* the active popup and the only popup drawn
C13_Witness ==
    /\ Done
    /\ d_msg.cmd = PopupEditor
    /\ panels = <<<<MODULE_log>>, <<MODULE_editor>>>>
    /\ IsPopup(St, <<MODULE_log>>)
    /\ IsPopup(St, <<MODULE_editor>>)
    /\ d_pre.active_popup = Some(0)
    /\ active_popup = Some(1)
    /\ Len(Redraws) = 1
    /\ Len(PopupDraws(Redraws[1])) = 1
    /\ PopupDraws(Redraws[1])[1].panel = <<MODULE_editor>>

\* C14: active_popup, when set, always indexes a panel whose type is Popup:
\* popup <name> activates <name> only if it names an existing popup-typed
\* panel, and popup <name> for a Normal panel does not make that panel the
\* active popup or the exclusive key target.
C14_PopupIsPopupTyped ==
    active_popup # NoPopup => IsPopup(St, panels[active_popup[1] + 1])

\* the scripted producer has sent popup <panel> and then key ctrl_x as its
\* lines k - 1 and k, no other producer has sent anything, and the panel is
\* a registered popup panel
AfterPopupCtrlX(k, panel) ==
    /\ free = 0
    /\ 2 <= k
    /\ k <= sp
    /\ script[k - 1] = <<Line(<<"p", "plugins", "popup">>) \o <<SPC>> \o panel>>
    /\ script[k] = <<KeyCtrlX>>
    /\ Contains(panels, panel)
    /\ IsPopup(St, panel)

\* popup <panel> then key ctrl_x: once the follow-up envelopes are processed
\* the popup is cleared, active_panel is what it was before the popup opened
\* (no dispatch that opens a popup or starts with a popup active moves it),
\* and the next key goes to the active panel's component
CtrlXClosesPopup(panel) ==
    /\ (Quiescent /\ AfterPopupCtrlX(sp, panel)) => active_popup = NoPopup
    /\ (/\ d_msg # NoMsg
        /\ \E k \in 2..sp : AfterPopupCtrlX(k, panel)
        /\ d_pre.active_popup # NoPopup \/ RegistryCommand("popup"))
       => active_panel = d_pre.active_panel
    /\ (/\ AfterPopupCtrlX(sp - 1, panel)
        /\ d_msg.cmd = script[sp][1]
        /\ RegistryCommand("key")
        /\ Done)
       => /\ Len(Sent) = 1
          /\ Sent[1].msg.cmd = KeyFor(panels[active_panel + 1], Get(Tokens, 3))

\* C15: after popup B, B a registered popup panel, and then key ctrl_x are
\* dispatched, the popup is eventually cleared once the follow-up envelopes
\* are processed, active_panel still designates the panel that was active
\* before the popup opened, and every later key is routed to that panel's
\* component.
C15_CtrlXClosesPopup ==
    \A panel \in {<<MODULE_log>>, <<MODULE_editor>>} : CtrlXClosesPopup(panel)

\* the same for the popup of the editor component alone
C15_CtrlXClosesEditorPopup == CtrlXClosesPopup(<<MODULE_editor>>)

\* popup editor, key ctrl_x and key up were sent: the popup is closed and
\* the key went to the active panel log
C15_EditorWitness ==
    /\ Done
    /\ AfterPopupCtrlX(sp - 1, <<MODULE_editor>>)
    /\ d_msg.cmd = KeyUp
    /\ active_popup = NoPopup
    /\ Len(Sent) = 1
    /\ Sent[1].msg.cmd = KeyFor(<<MODULE_log>>, <<"up">>)

\* the panel the registry forwards a key to: the active popup's when a popup
\* is active, the active panel's otherwise
KeyTarget == IF d_pre.active_popup # NoPopup
             THEN d_pre.panels[d_pre.active_popup[1] + 1]
             ELSE d_pre.panels[d_pre.active_panel + 1]

\* d_msg is p plugins key <code> with a code in codes, and panel_order is
\* not empty
KeyDispatched(codes) ==
    /\ RegistryCommand("key")
    /\ IsKey(Get(Tokens, 3))
    /\ Get(Tokens, 3)[1] \in codes
    /\ d_pre.panels # <<>>

\* one key <code> command goes to the target's component, nothing else is
\* enqueued and the registry and compositor state is unchanged
KeyForwarded ==
    /\ d_pc # "crashed"
    /\ RegistryUnchanged
    /\ Len(Sent) <= 1
    /\ \A k \in 1..Len(Sent) : Sent[k].msg.cmd = KeyFor(KeyTarget, Get(Tokens, 3))
    /\ Done => Len(Sent) = 1

\* C16: for every key code other than tab, dispatching key <code> to the
\* registry enqueues exactly one key <code> command, addressed to the active
\* popup's component when a popup is active and otherwise to the active
\* panel's component; no other component receives it and the compositor
\* state is unchanged.
C16_KeyForwarded == KeyDispatched(KeyNames \ {"tab"}) => KeyForwarded

\* the same for the key codes other than tab and ctrl_s
C16_KeyForwardedButCtrlS == KeyDispatched(KeyNames \ {"tab", "ctrl_s"}) => KeyForwarded

\* a key was forwarded to the popup editor and not to the active panel log
C16_ForwardedWitness ==
    /\ Done
    /\ KeyDispatched({"home"})
    /\ d_pre.active_popup # NoPopup
    /\ KeyTarget = <<MODULE_editor>>
    /\ d_pre.panels[d_pre.active_panel + 1] = <<MODULE_log>>
    /\ Len(Sent) = 1

\* d_msg is a top-level q, quit or exit
ShutdownCommand ==
    LET words == split_whitespace(StripComment(d_msg.cmd))
    IN  d_msg # NoMsg /\ words # <<>> /\ Canon(words[1]) \in {<<Q>>, <<QUIT>>, <<EXIT>>}

\* the dispatch of d_msg did nothing but broadcast the shutdown signal once
OnlyBroadcast ==
    /\ d_pc = "idle"
    /\ trace = <<[ev |-> "shutdown"]>>
    /\ RegistryUnchanged

\* task t holds a receiver of the shutdown broadcast
HoldsReceiver(t) == tasks[t].pc \notin {"none", "exited", "restored"}

\* task t has taken the branch of its shutdown_rx.recv()
Observed(t) ==
    CASE t = "hook" -> tasks[t].pc = "restored"
      [] t = "mqtt" -> tasks[t].flag
      [] OTHER -> tasks[t].pc = "exited"

\* a broadcast sent while t holds its receiver is observed by t
ObservesShutdown(t) == (HoldsReceiver(t) /\ Observes(t)) ~> Observed(t)

\* C17: dispatching an envelope whose first token is q, quit or exit
\* broadcasts the shutdown signal, invokes no component handler and changes
\* no registry or compositor state; every subscriber of the broadcast, the
\* background tasks and the terminal-restore hook, subsequently observes it.
C17_ShutdownBroadcast ==
    /\ [](ShutdownCommand => OnlyBroadcast)
    /\ ObservesShutdown("hook")
    /\ ObservesShutdown("input")
    /\ ObservesShutdown("subtitle")
    /\ ObservesShutdown("mqtt")

\* the same without the receive loop of the mqtt component
C17_ShutdownBroadcastButMqtt ==
    /\ [](ShutdownCommand => OnlyBroadcast)
    /\ ObservesShutdown("hook")
    /\ ObservesShutdown("input")
    /\ ObservesShutdown("subtitle")

\* exit was dispatched and the hook and both tasks of the gui component have
\* observed the broadcast
C17_ObservedWitness ==
    /\ ShutdownCommand
    /\ d_msg.cmd = CmdExit
    /\ OnlyBroadcast
    /\ Observed("hook")
    /\ Observed("input")
    /\ Observed("subtitle")

\* background task t has been spawned and has not ended
TaskRuns(t) == tasks[t].pc \notin {"none", "exited", "restored"}

\* once the shutdown signal is broadcast while t runs, t ends and no task of
\* its kind runs, or enqueues anything, from then on
ExitsOnShutdown(t) == (TaskRuns(t) /\ Observes(t)) ~> [](~TaskRuns(t))

\* C18: after the shutdown signal has been broadcast, every background task
\* spawned by a component (the one-second redraw ticker of the command
\* component, network loops, input readers) eventually exits and enqueues no
\* further envelopes.
C18_TasksExit ==
    /\ ExitsOnShutdown("ticker")
    /\ ExitsOnShutdown("mqtt")
    /\ ExitsOnShutdown("input")
    /\ ExitsOnShutdown("subtitle")

\* the same for the two tasks of the gui component
C18_GuiTasksExit == ExitsOnShutdown("input") /\ ExitsOnShutdown("subtitle")

\* text has a comment sign and no quote or escape sign, so the sign is
\* unquoted
UnquotedComment(text) ==
    /\ \E i \in 1..Len(text) : text[i] = COMMENT
    /\ \A i \in 1..Len(text) : text[i] \notin {SQ, DQ, BS}

\* the shell words of the text of d_msg before the comment sign
TokensBeforeComment == shell_words_split(StripComment(d_msg.cmd)).parts

\* C19: a trailing comment starting with # is stripped before the command
\* is tokenized: for every command text with an unquoted #, the token list
\* handed to the registry or component handler equals the shell words of
\* the text before the #, so no token of the comment reaches a handler.
C19_CommentStripped ==
    (d_msg # NoMsg /\ UnquotedComment(d_msg.cmd))
    => \A k \in 1..Len(HandlerCalls) : HandlerCalls[k].cmd_parts = TokensBeforeComment

\* the same for the texts whose comment sign follows a blank
C19_CommentAfterBlankStripped ==
    (/\ d_msg # NoMsg
     /\ UnquotedComment(d_msg.cmd)
     /\ \A i \in 2..Len(d_msg.cmd) : d_msg.cmd[i] = COMMENT => IsWhitespace(d_msg.cmd[i - 1]))
    => \A k \in 1..Len(HandlerCalls) : HandlerCalls[k].cmd_parts = TokensBeforeComment

\* p plugins popup # note closed the popup as p plugins popup does
C19_NoteWitness ==
    /\ Done
    /\ d_msg.cmd = CommentNote
    /\ Len(HandlerCalls) = 1
    /\ HandlerCalls[1].cmd_parts = <<<<"p">>, <<"plugins">>, <<"popup">>>>
    /\ d_pre.active_popup # NoPopup
    /\ active_popup = NoPopup

\* the place of a draw call in the order of one redraw r: 1 for a Normal
\* panel that is not the active panel, 2 for the active panel, 3 for a
\* popup-typed panel
DrawRank(r, c) ==
    IF r.types[c.idx + 1] = "popup" THEN 3
    ELSE IF c.idx = r.active_panel THEN 2
    ELSE 1

\* the draw order of one redraw r
DrawOrder(r) ==
    LET n == Len(r.calls) IN
    /\ \A i \in 1..Len(r.types) :
          r.types[i] = "normal"
          => Cardinality({j \in 1..n : r.calls[j].idx = i - 1}) = 1
    /\ \A j \in 1..n :
          \/ r.types[r.calls[j].idx + 1] = "normal"
          \/ /\ r.types[r.calls[j].idx + 1] = "popup"
             /\ r.active_popup = Some(r.calls[j].idx)
    /\ \A i, j \in 1..n : i < j => DrawRank(r, r.calls[i]) <= DrawRank(r, r.calls[j])
    /\ r.active_popup # NoPopup
       => /\ n >= 1
          /\ r.calls[n].idx = r.active_popup[1]

\* C20: in every redraw the draw calls are every non-active Normal panel,
\* then the active panel if it is Normal, then the active popup if one is
\* set; each registered Normal panel is drawn exactly once, a popup-typed
\* panel is drawn only when it is the active popup, and the active popup is
\* always the last draw call.
C20_DrawOrder == \A k \in 1..Len(Redraws) : DrawOrder(Redraws[k])

\* the same for the redraws whose active popup, if one is set, is a
\* popup-typed panel
C20_DrawOrderPopupTyped ==
    \A k \in 1..Len(Redraws) :
        (\/ Redraws[k].active_popup = NoPopup
         \/ Redraws[k].types[Redraws[k].active_popup[1] + 1] = "popup")
        => DrawOrder(Redraws[k])

\* a redraw with a Normal panel under a popup
C20_PopupLastWitness ==
    \E k \in 1..Len(Redraws) :
        /\ Len(Redraws[k].calls) = 2
        /\ Redraws[k].active_popup # NoPopup
        /\ Redraws[k].types[Redraws[k].active_popup[1] + 1] = "popup"
        /\ Redraws[k].calls[2].active

\* the nearest integer to n / 100, a half rounded up
Nearest(n) == (n + 50) \div 100

\* draw call c of redraw r is at the rounded percentages of the stored
\* geometry, origin and size
AtRounded(r, c) ==
    LET W == r.area.width
        H_usable == r.area.height - 3
    IN  /\ c.rect.x = Nearest(W * c.info.x)
        /\ c.rect.y = Nearest(H_usable * c.info.y)
        /\ c.rect.width = Nearest(W * c.info.w)
        /\ c.rect.height = Nearest(H_usable * c.info.h)

\* the draw calls of the panels that draw at their stored geometry
PercentCalls(r) == SelectSeq(r.calls, LAMBDA c : c.panel # <<MODULE_command>>)

\* C21: a panel whose geometry was set by gui normal 10 20 30 40 is drawn
\* with top-left corner (round(W*10/100), round(H_usable*20/100)), where
\* H_usable = H - 3, for every terminal size (W, H) with H >= 3; in general
\* the drawn origin and size are round(W*x/100), round(H_usable*y/100),
\* round(W*w/100), round(H_usable*h/100) of the stored percentages, a half
\* rounded up.
C21_DrawnAtRounded ==
    area.height >= 3
    => \A k \in 1..Len(Redraws) :
          \A j \in 1..Len(PercentCalls(Redraws[k])) :
             AtRounded(Redraws[k], PercentCalls(Redraws[k])[j])

\* C21, amended: whenever a panel is drawn on a terminal of three rows or
\* more, its origin is the rounded one and its size is the rounded one cut
\* to what is left between the origin and the edge of the terminal; the
\* command panel is drawn as a bar of three rows under the usable height.
C21_DrawnAtRoundedClamped ==
    area.height >= 3
    => \A k \in 1..Len(Redraws) :
          /\ \A j \in 1..Len(Redraws[k].calls) :
                Redraws[k].calls[j].panel = <<MODULE_command>>
                => Redraws[k].calls[j].rect =
                      [x |-> 0, y |-> Redraws[k].area.height - 3,
                       width |-> Redraws[k].area.width, height |-> 3]
          /\ \A j \in 1..Len(PercentCalls(Redraws[k])) :
             LET r == Redraws[k]
                 c == PercentCalls(r)[j]
             IN  /\ c.rect.x = Nearest(r.area.width * c.info.x)
                 /\ c.rect.y = Nearest((r.area.height - 3) * c.info.y)
                 /\ c.rect.width = min(Nearest(r.area.width * c.info.w),
                                       saturating_sub(r.area.width, c.rect.x))
                 /\ c.rect.height = min(Nearest((r.area.height - 3) * c.info.h),
                                        saturating_sub(r.area.height, c.rect.y))

\* log, set by gui normal 50 50 50 50, was drawn on 5 x 8 at (3, 3), two
\* columns wide
C21_ClampedWitness ==
    \E k \in 1..Len(Redraws) :
        \E j \in 1..Len(Redraws[k].calls) :
            /\ Redraws[k].area = [width |-> 5, height |-> 8]
            /\ Redraws[k].calls[j].panel = <<MODULE_log>>
            /\ Redraws[k].calls[j].info = [panel_type |-> "normal", x |-> 50, y |-> 50,
                                          w |-> 50, h |-> 50]
            /\ Redraws[k].calls[j].rect = [x |-> 3, y |-> 3, width |-> 2, height |-> 3]

\* log, set by gui normal 10 20 30 40, was drawn at (8, 4) on 80 x 24
C21_OriginWitness ==
    \E k \in 1..Len(Redraws) :
        \E j \in 1..Len(Redraws[k].calls) :
            /\ Redraws[k].area = Area80x24
            /\ Redraws[k].calls[j].panel = <<MODULE_log>>
            /\ Redraws[k].calls[j].info = [panel_type |-> "normal", x |-> 10, y |-> 20,
                                          w |-> 30, h |-> 40]
            /\ Redraws[k].calls[j].rect = [x |-> 8, y |-> 4, width |-> 24, height |-> 8]

\* d_msg is popup <name> with a name that is in no place of panel_order
PopupNotFound ==
    /\ RegistryCommand("popup")
    /\ ~Contains(d_pre.panels, Get(Tokens, 3))

\* C22: a popup <name> command whose name matches no registered panel is a
\* domain error: it produces a logged warning and leaves active_popup and
\* active_panel unchanged.
C22_PopupNotFoundWarns ==
    (Done /\ PopupNotFound)
    => /\ Len(Warnings) >= 1
       /\ active_popup = d_pre.active_popup
       /\ active_panel = d_pre.active_panel

\* the part of C22 about the state: popup <name> with an unknown name leaves
\* active_popup and active_panel unchanged
C22_PopupNotFoundKeepsState ==
    PopupNotFound
    => /\ active_popup = d_pre.active_popup
       /\ active_panel = d_pre.active_panel

\* popup ghost was handled while a popup was active
C22_NotFoundWitness ==
    /\ Done
    /\ PopupNotFound
    /\ d_pre.active_popup # NoPopup
    /\ Len(Redraws) = 1

\* d_msg is p plugins key <code> with a code of the key vocabulary
KeyCommand == RegistryCommand("key") /\ IsKey(Get(Tokens, 3))

KeyIsTab == Get(Tokens, 3) = <<"tab">>

\* C23: in every reachable state, including an empty panel_order, a
\* panel_order entry that names no registered component and a panel_order of
\* popup-typed panels only, handling a registry key <code> command
\* terminates without aborting the process and leaves active_panel a valid
\* index; tab is never forwarded to a component, and when a popup is active
\* tab leaves active_panel unchanged.
C23_KeyTerminates ==
    KeyCommand
    => /\ d_pc \notin {"crashed", "spin"}
       /\ active_panel < Len(panels)
       /\ KeyIsTab => Len(Sent) = 0
       /\ (KeyIsTab /\ d_pre.active_popup # NoPopup) => active_panel = d_pre.active_panel

\* the part of C23 about tab: it is never forwarded, and under a popup it
\* leaves active_panel unchanged
C23_TabIntercepted ==
    (KeyCommand /\ KeyIsTab)
    => /\ Len(Sent) = 0
       /\ d_pre.active_popup # NoPopup => active_panel = d_pre.active_panel

\* the cases of C23 in which the handler does not return: tab loops over a
\* panel_order of popups or over an entry without component
C23_SpinWitness == KeyCommand /\ KeyIsTab /\ d_pc = "spin"

\* tab under an active popup was handled
C23_TabUnderPopupWitness ==
    Done /\ KeyCommand /\ KeyIsTab /\ d_pre.active_popup # NoPopup /\ Len(Redraws) = 1

\* C24: in every redraw the non-popup panel at active_panel is drawn at
\* active style and every other normal panel at inactive style, and the
\* active popup, if any, is drawn at active style.
C24_ActiveStyle ==
    \A k \in 1..Len(Redraws) :
        \A j \in 1..Len(Redraws[k].calls) :
            LET r == Redraws[k]
                c == r.calls[j]
            IN  IF r.types[c.idx + 1] = "popup" THEN c.active
                ELSE c.active <=> (c.idx = r.active_panel)

\* C24, amended: in every redraw the non-popup panel at active_panel is
\* drawn at active style when no popup is set and at inactive style while
\* one is set, every other normal panel is drawn at inactive style, and the
\* popup, when it is drawn, is drawn at active style.
C24_ActiveStyleUnlessPopup ==
    \A k \in 1..Len(Redraws) :
        \A j \in 1..Len(Redraws[k].calls) :
            LET r == Redraws[k]
                c == r.calls[j]
            IN  IF r.types[c.idx + 1] = "popup" THEN c.active
                ELSE c.active <=> (r.active_popup = NoPopup /\ c.idx = r.active_panel)

\* a redraw with a popup over the active normal panel: the popup at active
\* style and the panel at inactive style
C24_UnderPopupWitness ==
    \E k \in 1..Len(Redraws) :
        LET r == Redraws[k] IN
        /\ Len(r.calls) = 2
        /\ r.types[r.calls[1].idx + 1] = "normal"
        /\ r.calls[1].idx = r.active_panel
        /\ ~r.calls[1].active
        /\ r.types[r.calls[2].idx + 1] = "popup"
        /\ r.calls[2].active

\* the stores into a component's panel geometry while d_msg is handled
InfoStores == SelectSeq(trace, LAMBDA e : e.ev = "panel_info")

\* d_msg is p <component> key <code>, handed to a panel component that
\* calls the shared nudge (the command component hands its keys on to the
\* gui component), with one of the eight codes that move or resize a panel
NudgeCommand ==
    /\ Len(HandlerCalls) = 1
    /\ HandlerCalls[1].action = "key"
    /\ HandlerCalls[1].plugin \in PanelCapable \ {MODULE_command}
    /\ Has(Tokens, 3)
    /\ Len(Get(Tokens, 3)) = 1
    /\ Get(Tokens, 3)[1] \in PositionKeys

\* the geometry of the component of the nudge before the nudge
NudgedInfo ==
    IF InfoStores # <<>> THEN InfoStores[1].old ELSE panel_info[HandlerCalls[1].plugin]

\* the geometry after key on the geometry pi, as C25 states it
Nudged(key, pi) ==
    CASE key = "alt_up" -> [pi EXCEPT !.y = IF @ = 0 THEN 0 ELSE @ - 1]
      [] key = "alt_left" -> [pi EXCEPT !.x = IF @ = 0 THEN 0 ELSE @ - 1]
      [] key = "alt_down" -> [pi EXCEPT !.y = @ + 1]
      [] key = "alt_right" -> [pi EXCEPT !.x = @ + 1]
      [] key = "alt_w" -> [pi EXCEPT !.h = IF @ > 3 THEN @ - 1 ELSE @]
      [] key = "alt_a" -> [pi EXCEPT !.w = IF @ > 10 THEN @ - 1 ELSE @]
      [] key = "alt_s" -> [pi EXCEPT !.h = @ + 1]
      [] key = "alt_d" -> [pi EXCEPT !.w = @ + 1]

\* the nudge of d_msg: the geometry of the component before it changes as
\* stated, at most one command is enqueued, once the handler is done it is
\* exactly one redraw to the registry, and nothing else changes
NudgeDone ==
    LET plugin == HandlerCalls[1].plugin
        key == Get(Tokens, 3)[1]
    IN  /\ d_pc # "crashed"
        /\ RegistryUnchanged
        /\ Len(Sent) <= 1
        /\ \A k \in 1..Len(Sent) :
              /\ Sent[k].msg.plugin = plugin
              /\ Sent[k].msg.cmd = Redraw
        /\ Len(InfoStores) <= 1
        /\ \A k \in 1..Len(InfoStores) :
              /\ InfoStores[k].plugin = plugin
              /\ InfoStores[k].new = Nudged(key, InfoStores[k].old)
        /\ \A q \in DOMAIN panel_info :
              q # plugin \/ InfoStores = <<>> \/ panel_info[q] = InfoStores[1].new
        /\ Done => Len(Sent) = 1 /\ Len(InfoStores) = 1

\* C25: the shared key-nudge operation maps (key, x, y, w, h) to the new
\* geometry as follows and changes nothing else: alt_up / alt_left decrement
\* y / x by 1 saturating at 0; alt_down / alt_right increment y / x by 1;
\* alt_w decrements h by 1 only when h > 3; alt_a decrements w by 1 only
\* when w > 10; alt_s / alt_d increment h / w by 1; after every nudge
\* exactly one redraw command is enqueued to the registry.
C25_Nudge == NudgeCommand => NudgeDone

\* the same for the geometries whose fields are below u16::MAX
C25_NudgeBelowMax ==
    (/\ NudgeCommand
     /\ \A f \in {"x", "y", "w", "h"} : NudgedInfo[f] < U16_MAX)
    => NudgeDone

\* alt_w on a panel of height 3 was handled and left the height
C25_FloorWitness ==
    /\ Done
    /\ NudgeCommand
    /\ Get(Tokens, 3) = <<"alt_w">>
    /\ InfoStores[1].old.h = 3
    /\ InfoStores[1].new.h = 3

\* C26: after any sequence of gui commands and key nudges, every panel's x,
\* y, w and h is a percentage in 0..100: the gui parser rejects values above
\* 100, and repeated alt_down / alt_right / alt_s / alt_d nudges never push
\* a field above 100 nor overflow the u16 field.
C26_Percentages ==
    /\ \A q \in DOMAIN panel_info :
          \A f \in {"x", "y", "w", "h"} : panel_info[q][f] \in 0..100
    /\ \A k \in 1..Len(trace) : trace[k].ev # "overflow" \/ trace[k].at = "draw"
    /\ d_pc = "handling" => Head(d_ops).op # "overflow" \/ Head(d_ops).at = "draw"

\* every field of every panel is a u16
C26_FieldsAreU16 ==
    \A q \in DOMAIN panel_info :
        \A f \in {"x", "y", "w", "h"} : panel_info[q][f] \in 0..U16_MAX

\* a nudge pushed the height of log from 100 to 101
C26_NudgeOverWitness ==
    /\ NudgeCommand
    /\ InfoStores # <<>>
    /\ InfoStores[1].old.h = 100
    /\ InfoStores[1].new.h = 101

\* d_msg is p <component> gui ..., handed to a panel component
GuiHandled ==
    /\ Len(HandlerCalls) = 1
    /\ HandlerCalls[1].action = "gui"
    /\ HandlerCalls[1].plugin \in PanelCapable

\* the five arguments are there and parse
GuiWellFormed ==
    /\ Has(Tokens, 7)
    /\ Len(Get(Tokens, 3)) = 1
    /\ Get(Tokens, 3)[1] \in PanelTypeNames
    /\ \A i \in 4..7 : Len(Get(Tokens, i)) = 1 /\ Get(Tokens, i)[1] \in U16Text

\* the five values of the command text
GuiValues ==
    [panel_type |-> Get(Tokens, 3)[1], x |-> U16Val(Get(Tokens, 4)[1]),
     y |-> U16Val(Get(Tokens, 5)[1]), w |-> U16Val(Get(Tokens, 6)[1]),
     h |-> U16Val(Get(Tokens, 7)[1])]

InsertPanelOf(plugin) == Line(<<P, MODULE_plugins, "insert_panel", plugin>>)

\* C27: when a registered panel-capable component handles a complete
\* well-formed gui <panel_type> <x> <y> <w> <h>, it stores exactly those
\* five values and enqueues exactly one insert_panel <own name> to the
\* registry, so that once that envelope is dispatched the component's name
\* is in panel_order; a gui command with fewer than five arguments yields
\* one warning, leaves the stored geometry unchanged and enqueues no
\* insert_panel.
C27_GuiStoresAndRegisters ==
    /\ (GuiHandled /\ GuiWellFormed)
       => LET plugin == HandlerCalls[1].plugin IN
          /\ d_pc # "crashed"
          /\ Len(Sent) <= 1
          /\ \A k \in 1..Len(Sent) :
                /\ Sent[k].msg.plugin = plugin
                /\ Sent[k].msg.cmd = InsertPanelOf(plugin)
          /\ Len(InfoStores) <= 1
          /\ \A k \in 1..Len(InfoStores) :
                InfoStores[k].plugin = plugin /\ InfoStores[k].new = GuiValues
          /\ Done => /\ Len(Sent) = 1
                     /\ Len(InfoStores) = 1
                     /\ panel_info[plugin] = GuiValues
    /\ (GuiHandled /\ ~Has(Tokens, 7))
       => /\ d_pc # "crashed"
          /\ InfoStores = <<>>
          /\ Len(Sent) <= 1
          /\ Len(Warnings) = Len(Sent)
          /\ Done => Len(Warnings) = 1
    /\ \A q \in PanelCapable :
          (Done /\ d_msg.plugin = q /\ d_msg.cmd = InsertPanelOf(q))
          => Contains(panels, <<q>>)

\* log handled gui normal 0 0 10 3 and stored it
C27_StoredWitness ==
    /\ Done
    /\ GuiHandled
    /\ d_msg.cmd = GuiLogLow
    /\ panel_info[MODULE_log] = [panel_type |-> "normal", x |-> 0, y |-> 0, w |-> 10, h |-> 3]
    /\ Len(Sent) = 1

\* the insert_panel that log enqueued was dispatched
C27_RegisteredWitness ==
    /\ Done
    /\ d_msg.plugin = MODULE_log
    /\ d_msg.cmd = InsertPanelOf(MODULE_log)
    /\ d_pre.panels = <<>>
    /\ panels = <<<<MODULE_log>>>>

\* log handled a gui command with four arguments
C27_ShortWitness ==
    /\ Done
    /\ GuiHandled
    /\ d_msg.cmd = GuiLogShort
    /\ Len(Warnings) = 1
    /\ panel_info[MODULE_log] # PanelInfoNew("normal")

\* d_msg is a gui command with five arguments of which one does not parse
GuiMalformed == GuiHandled /\ Has(Tokens, 7) /\ ~GuiWellFormed

\* C28: a gui command with five arguments of which the panel type or one of
\* the four numeric fields fails to parse is a fatal abort of the whole
\* process (the dispatcher does not continue), rather than a logged warning
\* with the command dropped and the geometry unchanged.
C28_MalformedGuiAborts ==
    GuiMalformed
    => /\ d_pc \in {"handling", "crashed"}
       /\ d_pc = "handling" => Sent = <<>> /\ Head(d_ops).op = "send"
       /\ d_pc = "crashed" => Len(Sent) = 1 /\ Sent[1].msg.cmd = InsertPanelOf(HandlerCalls[1].plugin)
       /\ Warnings = <<>>
       /\ InfoStores = <<>>

\* the process ended on gui bogus 0 0 50 50 and on gui normal 0 0 50 abc
C28_AbortedWitness ==
    /\ GuiMalformed
    /\ d_pc = "crashed"
    /\ d_msg.cmd = GuiLogBadNumber

C28_AbortedTypeWitness ==
    /\ GuiMalformed
    /\ d_pc = "crashed"
    /\ d_msg.cmd = GuiLogBadType

\* once the process has ended the dispatcher pulls nothing more
C28_NoPullAfterAbort == [][d_pc = "crashed" => UNCHANGED <<d_pc, d_msg, handled, trace>>]_vars

\* the stored geometry of draw call c is made of percentages
InPercent(c) == \A f \in {"x", "y", "w", "h"} : c.info[f] \in 0..100

\* draw call c of redraw r draws into a rectangle inside the terminal that
\* is no wider and no higher than the requested one
InsideTerminal(r, c) ==
    LET requested == caculate_position(r.area, c.info.x, c.info.y, c.info.w, c.info.h)
    IN  /\ c.rect.x + c.rect.width <= r.area.width
        /\ c.rect.y + c.rect.height <= r.area.height
        /\ c.panel # <<MODULE_command>>
           => c.rect.width <= requested.w /\ c.rect.height <= requested.h

\* C29: for every stored geometry with x, y, w, h in 0..100 and every
\* terminal area, the clamped rectangle a panel is drawn into lies inside
\* the terminal: rect.x + rect.width <= area.x + area.width and
\* rect.y + rect.height <= area.y + area.height, and its width and height
\* never exceed the requested ones.
C29_RectInsideTerminal ==
    \A k \in 1..Len(Redraws) :
        \A j \in 1..Len(Redraws[k].calls) :
            InPercent(Redraws[k].calls[j])
            => InsideTerminal(Redraws[k], Redraws[k].calls[j])

\* the same for the terminals of three rows or more
C29_RectInsideFromThreeRows ==
    area.height >= 3
    => \A k \in 1..Len(Redraws) :
          \A j \in 1..Len(Redraws[k].calls) :
             InPercent(Redraws[k].calls[j])
             => InsideTerminal(Redraws[k], Redraws[k].calls[j])

\* a panel whose rounded size was cut at the edge of a terminal of three
\* rows or more
C29_CutWitness ==
    /\ area.height >= 3
    /\ \E k \in 1..Len(Redraws) :
          \E j \in 1..Len(Redraws[k].calls) :
             LET c == Redraws[k].calls[j] IN
             /\ InPercent(c)
             /\ c.panel = <<MODULE_log>>
             /\ c.rect.width < RoundPercent(Redraws[k].area.width, c.info.w)
             /\ c.rect.height < RoundPercent(Redraws[k].area.height - 3, c.info.h)

\* name is the name of a registered component with panel_info and draw
IsPanelComponent(name) == get_plugin(St, name) /\ PluginOf(St, name) \in PanelCapable

\* C30: every name in panel_order is the name of a registered component
\* that implements the panel capability (panel_info and draw), in every
\* reachable state; insert_panel <name> for a name that is not such a
\* component does not enter panel_order, so redraw and tab-cycling never
\* reach the panicking default panel_info/draw or an entry without owner.
C30_PanelsAreComponents ==
    \A i \in 1..Len(panels) : IsPanelComponent(panels[i])

\* the compositor's indices designate entries of a non-empty panel_order
IndicesInRange(order, panel, popup) ==
    Len(order) > 0 =>
        /\ panel < Len(order)
        /\ popup # NoPopup => popup[1] < Len(order)

\* C31: in every reachable state with a non-empty panel_order, active_panel
\* and active_popup, when set, are below the length of panel_order; every
\* step leaves the entries panel_order already has in place, so that the
\* panels designated by the two indices are the same panels after an
\* insertion.
C31_IndicesDesignatePanels ==
    [][/\ IndicesInRange(panels', active_panel', active_popup')
       /\ IsPrefix(panels, panels')
       /\ (Len(panels) > 0 /\ panels' # panels) =>
            /\ active_panel' = active_panel
            /\ active_popup' = active_popup
            /\ panels'[active_panel + 1] = panels[active_panel + 1]
            /\ active_popup # NoPopup =>
                 panels'[active_popup[1] + 1] = panels[active_popup[1] + 1]]_vars

\* a panel was inserted while a popup, not the first panel, was up
C31_InsertUnderPopupWitness ==
    /\ d_pc = "idle"
    /\ d_pre.active_popup # NoPopup
    /\ Len(panels) > Len(d_pre.panels)
    /\ active_popup = d_pre.active_popup

\* the last panel of panel_order is the popup
C31_LastPopupWitness ==
    /\ Len(panels) > 1
    /\ active_popup = Some(Len(panels) - 1)

\* the process ended in the unwrap of Plugins::redraw: there is no terminal
MissingTerminalAbort ==
    /\ d_pc = "crashed"
    /\ terminal = None
    /\ trace # <<>>
    /\ trace[Len(trace)].ev = "panic"
    /\ trace[Len(trace)].at = "redraw"

\* C32: whenever a redraw is performed (registry actions redraw,
\* insert_panel, key tab, popup) the registry holds a terminal handle, and
\* holds it again after the redraw; no redraw-triggering command, in GUI
\* mode or in CLI mode, ends the process on a missing terminal.
C32_RedrawHoldsTerminal ==
    /\ Redraws # <<>> => terminal # None
    /\ ~MissingTerminalAbort

\* in GUI mode the handle is there before and after every redraw
C32_GuiRedrawHoldsTerminal ==
    mode = "Gui" => (terminal # None /\ ~MissingTerminalAbort)

\* a redraw went through in GUI mode
C32_GuiRedrawWitness ==
    mode = "Gui" /\ d_pc = "idle" /\ Redraws # <<>> /\ terminal # None

\* the events the step added to the trace: all of it when the step pulled
\* an envelope
NewEvents ==
    IF handled' = handled THEN SubSeq(trace', Len(trace) + 1, Len(trace'))
    ELSE trace'

\* the step called Terminal::draw
Draws == \E i \in 1..Len(NewEvents) : NewEvents[i].ev = "redraw"

\* C33: once the terminal-restore hook has run in response to the shutdown
\* broadcast, the dispatcher performs no further terminal draw, whatever
\* envelopes are still queued or still being produced.
C33_NoDrawAfterRestore ==
    [][tasks["hook"].pc = "restored" => ~Draws]_vars

\* a draw with the terminal restored
C33_DrawAfterRestoreWitness ==
    /\ tasks["hook"].pc = "restored"
    /\ d_pc = "idle"
    /\ Redraws # <<>>
    /\ d_msg.plugin = MODULE_command

\* text is a top-level q, quit or exit
IsShutdownText(text) ==
    LET words == split_whitespace(StripComment(text))
    IN  words # <<>> /\ Canon(words[1]) \in {<<Q>>, <<QUIT>>, <<EXIT>>}

\* no producer of the run ever sends q, quit or exit
NoShutdownCommandSent ==
    /\ \A i \in 1..Len(script) : \A j \in 1..Len(script[i]) : ~IsShutdownText(script[i][j])
    /\ \A c \in freecmds : ~IsShutdownText(c)

\* C34: the shutdown signal is broadcast only as a consequence of the
\* dispatcher handling a top-level q, quit or exit; in a run in which no such
\* command is ever sent, shutdown is never broadcast and the process keeps
\* running (no timer in main broadcasts it).
C34_ShutdownOnlyByCommand ==
    [][/\ shutdown' # shutdown => (handled' = handled + 1 /\ ShutdownCommand')
       /\ NoShutdownCommandSent => (shutdown' = 0 /\ d_pc' # "exited")]_vars

\* the dispatcher broadcasts only when it handles q, quit or exit
C34_DispatcherBroadcastsOnCommand ==
    [][(shutdown' # shutdown /\ tasks'["main"] = tasks["main"])
          => (handled' = handled + 1 /\ ShutdownCommand')]_vars

\* main has broadcast the shutdown signal and returned in a run without q,
\* quit or exit
C34_TimerWitness ==
    /\ NoShutdownCommandSent
    /\ shutdown = 1
    /\ d_pc = "exited"

\* q was handled before the sleep of main ended
C34_CommandWitness ==
    /\ ShutdownCommand
    /\ shutdown = 1
    /\ tasks["main"].pc = "sleep"

\* the handler of d_msg has ended, left the registry and the compositor as
\* they were and sent the text of d_msg again: the registry handles the new
\* envelope as it handled d_msg, and so on without end
Reproduces ==
    /\ d_pc = "idle"
    /\ RoutedToRegistry
    /\ RegistryUnchanged
    /\ \E i \in 1..Len(Sent) : Sent[i].msg.cmd = d_msg.cmd

\* C35: the cascade of follow-up envelopes caused by any single command
\* (warnings and infos routed as p log log, the redraw per log line, key
\* forwarding, popup and redraw requests) is finite, so that the channel
\* becomes empty once the producers stop; no command starts a
\* self-sustaining loop of envelopes.
C35_CascadeEnds == ~Reproduces

\* without a panel named plugins no handler sends its own command again
C35_CascadeEndsButPluginsPanel ==
    ~Contains(panels, <<MODULE_plugins>>) => ~Reproduces

\* the cascade of key up, forwarded to the log panel, has ended: the bus is
\* quiescent and the script goes on
C35_QuiescentWitness ==
    /\ Quiescent
    /\ sp = Len(script)
    /\ script[1] = <<GuiLogNormal>>
    /\ d_msg.cmd = <<P, SPC, MODULE_plugins, SPC, "redraw", SPC, MODULE_log>>

\* the forwarded key comes back to the registry again and again
C35_LoopWitness == Reproduces /\ accepted = MaxEnvelopes

\* the dispatcher-invoked key handler of the gui component waits for the
\* line-editing mutexes
HandlerWaitsForLine == d_pc = "handling" /\ Head(d_ops).op = "lock"

\* the key-reader task holds the mutexes and awaits capacity on the command
\* channel
ReaderAwaitsCapacity ==
    /\ line.holder = "input"
    /\ tasks["input"].pc \in {"enter_cmd", "update"}
    /\ Len(chan) = capacity

\* handler and reader wait for each other: the reader releases the mutexes
\* after a send that needs a free slot, and only the dispatcher, which
\* stands in the handler, takes envelopes out of the channel
LineDeadlock == HandlerWaitsForLine /\ ReaderAwaitsCapacity

\* C36: the key-reader task of the input component and its
\* dispatcher-invoked key handler cannot deadlock: whenever the handler
\* waits for the line-editing mutexes (output, history, history_index, taken
\* in that order), the holder eventually releases them, also when the holder
\* awaits capacity on the bounded command channel with the lock held.
C36_NoLineDeadlock == ~LineDeadlock

\* the mutexes have at most one holder, and the reader holds them exactly
\* while it stands between its lock and the end of its sends
C36_OneHolder ==
    /\ line.holder \in {None, "input", "dispatcher"}
    /\ line.holder = "input" <=> tasks["input"].pc \in {"enter_cmd", "update"}
    /\ line.holder = "dispatcher" => d_pc \in {"handling", "crashed"}

\* the handler waited for the reader and went on: key up was handled after
\* the reader released the mutexes
C36_ReleasedWitness ==
    /\ d_pc = "idle"
    /\ d_msg.cmd = GuiKeyUp
    /\ line.holder = None
    /\ line.history # <<>>
    /\ Len(Sent) = 1

\* the dispatcher stands at a u16 subtraction of a draw whose result is
\* below zero
AtDrawUnderflow ==
    d_pc = "handling" /\ Head(d_ops).op = "overflow" /\ Head(d_ops).at = "draw"

\* C37: drawing never underflows its unsigned arithmetic: whenever a
\* percentage-positioned panel is drawn, the terminal has at least 3 rows
\* (for height - 3) and the clamped height of the panel is at least 3 (for
\* area_height - 3 of the scroll offset), for every reachable geometry, the
\* all-zero geometry of a panel registered before any gui command included,
\* and every terminal size.
C37_DrawNeverUnderflows ==
    /\ ~AtDrawUnderflow
    /\ \A k \in 1..Len(Redraws) :
          \A j \in 1..Len(PercentCalls(Redraws[k])) :
             /\ Redraws[k].area.height >= 3
             /\ PercentCalls(Redraws[k])[j].rect.height >= 3

\* the log panel, registered without a gui command, is about to be drawn
\* with its all-zero geometry on a terminal of 24 rows
C37_DefaultGeometryWitness ==
    /\ AtDrawUnderflow
    /\ area = Area80x24
    /\ Contains(panels, <<MODULE_log>>)
    /\ panel_info[MODULE_log] = PanelInfoNew("normal")

\* C38: in GUI mode the buffer of the log component is bounded: after every
\* log action the number of stored lines is at most LOG_CAPACITY (1000),
\* also when one log message holds several newline-separated lines, and the
\* lines evicted are the oldest ones.
C38_LogBufferBounded == mode = "Gui" => logs <= LOG_CAPACITY

\* a log action leaves at most one line more than it found when the buffer
\* was full, whatever the number of lines of its message
C38_OneLineEvicted ==
    [][(handled' = handled + 1 /\ logs = LOG_CAPACITY /\ logs' > logs)
          => \E k \in 2..3 :
                /\ Lines(Get(Tokens', 4)) = k
                /\ logs' = LOG_CAPACITY + k - 1]_vars

\* one-line messages keep a full buffer at LOG_CAPACITY
C38_FullWitness ==
    /\ d_pc = "idle"
    /\ d_msg.cmd = LogOneLine
    /\ HandlerCalls # <<>>
    /\ logs = LOG_CAPACITY
    /\ sp = 2
    /\ script[2] = <<LogOneLine>>

\* the buffer holds more than LOG_CAPACITY lines
C38_OverWitness ==
    /\ d_pc = "idle"
    /\ d_msg.cmd = LogTwoLines
    /\ logs = LOG_CAPACITY + 1

====
